---- MODULE Spec2Model ----
(***************************************************************************)
(* State-machine model of the MomBoss WhatsApp agent: the bounded          *)
(* tool-calling loop (app/lib/agent.ts processMessage), the tool           *)
(* dispatcher (lib/tool-executor.ts executeTool and its handlers), the     *)
(* conversation store (app/lib/conversation.ts) and the WordPress client   *)
(* (app/lib/wordpress.ts).                                                 *)
(*                                                                         *)
(* JavaScript values are modelled as follows.  A string is a sequence of   *)
(* chunks (" " is a whitespace chunk); numbers that only serve as          *)
(* identifiers are written as their JSON token ("1", "2"); `undefined` and *)
(* `null` are the tokens Undefined and Null; an optional value is the      *)
(* empty tuple or a one-element tuple.  Every thrown value is an Error     *)
(* object with a message, as the OpenAI SDK, Prisma and the runtime's      *)
(* TypeError all are.  logger.* calls write to the console only and are no *)
(* part of the state.                                                      *)
(***************************************************************************)
EXTENDS Integers, Sequences, FiniteSets, TLC

VARIABLES
    inv,    \* the locals and the position of the one processMessage invocation
    db,     \* Prisma storage: conversation, vendorLink and actionLog tables
    obs,    \* what the invocation did to its collaborators, in order
    hook    \* the webhook handler that called processMessage, if one did

vars == <<inv, db, obs, hook>>

----------------------------------------------------------------------------
(* Bounds of the model                                                     *)

\* most tool-call requests one model response carries
MaxCallsPerResponse == 2
\* most tool-call requests the model issues during one invocation
MaxToolCalls == 3
\* the milliseconds the clock advances while a slow tool executes
MaxTick == 1

----------------------------------------------------------------------------
(* Program constants                                                       *)

MAX_TOOL_ROUNDS == 3

FALLBACK_REPLY == <<"I'm here to help! What can I do for you today?">>

APOLOGY_REPLY == <<"Sorry, I ran into a problem. Please try again in a moment.">>

----------------------------------------------------------------------------
(* JavaScript values                                                       *)

None == <<>>
Some(x) == <<x>>

Undefined == "undefined"
Null == "null"

\* JavaScript truthiness of a scalar token
Truthy(v) == v \notin {Undefined, Null, "", "0", "false"}

\* an operator that always takes its right operand
OrElseRight(a, b) == b

\* a || b
OrElse(a, b) == IF Truthy(a) THEN a ELSE b

\* String.prototype.trim on a string of chunks
RECURSIVE TrimLeft(_)
TrimLeft(s) == IF s # <<>> /\ Head(s) = " " THEN TrimLeft(Tail(s)) ELSE s

RECURSIVE TrimRight(_)
TrimRight(s) ==
    IF s # <<>> /\ s[Len(s)] = " " THEN TrimRight(SubSeq(s, 1, Len(s) - 1)) ELSE s

trim(s) == TrimRight(TrimLeft(s))

\* the parsed JSON values the dispatcher can be handed
JsNull == [type |-> "null", props |-> <<>>]
JsObject(props) == [type |-> "object", props |-> props]

\* the members of a flat JSON object, toks being the tokens between the braces
RECURSIVE ParseMembers(_, _)
ParseMembers(toks, acc) ==
    IF Len(toks) < 3 \/ toks[2] # ":" \/ toks[1] \in {"{", "}", ":", ","}
                     \/ toks[3] \in {"{", "}", ":", ","}
    THEN [ok |-> FALSE, value |-> JsNull]
    ELSE LET props == [k \in DOMAIN acc \cup {toks[1]} |->
                          IF k = toks[1] THEN toks[3] ELSE acc[k]]
         IN  IF Len(toks) = 3 THEN [ok |-> TRUE, value |-> JsObject(props)]
             ELSE IF toks[4] = "," THEN ParseMembers(SubSeq(toks, 5, Len(toks)), props)
             ELSE [ok |-> FALSE, value |-> JsNull]

\* JSON.parse on a token string: ok = FALSE is the thrown SyntaxError
JSONParse(toks) ==
    IF toks = <<"null">> THEN [ok |-> TRUE, value |-> JsNull]
    ELSE IF Len(toks) >= 2 /\ toks[1] = "{" /\ toks[Len(toks)] = "}"
    THEN IF Len(toks) = 2 THEN [ok |-> TRUE, value |-> JsObject(<<>>)]
         ELSE ParseMembers(SubSeq(toks, 2, Len(toks) - 1), <<>>)
    ELSE [ok |-> FALSE, value |-> JsNull]

\* JSON.stringify of a tool result: the text that encodes it
JSONStringify(value) == [json |-> value]

\* input.<field> when input is an object: undefined for a missing property
Prop(input, field) ==
    IF field \in DOMAIN input.props THEN input.props[field] ELSE Undefined

----------------------------------------------------------------------------
(* The WordPress / WooCommerce / Dokan backend (app/lib/wordpress.ts).     *)
(* Every client function issues HTTP requests and turns a failed request   *)
(* into {success:false, error}; none of them throws.  `net` tells, for the *)
(* k-th request a tool execution issues, whether the backend answers 2xx.  *)

\* the stores the Dokan backend holds
VendorDirectory ==
    { [id |-> "7", store_name |-> "Amina Bakes", email |-> "amina@shop.ke"],
      [id |-> "8", store_name |-> "Zawadi Crafts", email |-> "zawadi@shop.ke"] }

VendorIds == {v.id : v \in VendorDirectory}

VendorById(id) == CHOOSE v \in VendorDirectory : v.id = id

\* one HTTP request: author is the `author` query parameter (the vendor filter)
Req(method, path, author) == [method |-> method, path |-> path, author |-> author]

Failure(message) == [success |-> FALSE, error |-> message]

handleApiError(label) == "Error: " \o label \o " failed"

\* what a client function hands back: its return value and the requests it made
Wp(result, reqs) == [result |-> result, reqs |-> reqs]

createProduct(net, k) ==
    Wp(IF net[k] THEN [success |-> TRUE, product |-> "created"]
       ELSE Failure(handleApiError("Create product")),
       <<Req("POST", "/products", Undefined)>>)

listProducts(vendor_id, net, k) ==
    Wp(IF net[k] THEN [success |-> TRUE, products |-> "listed", count |-> "n"]
       ELSE Failure(handleApiError("List products")),
       <<Req("GET", "/products", IF Truthy(vendor_id) THEN vendor_id ELSE Undefined)>>)

getProduct(productId, net, k) ==
    Wp(IF net[k] THEN [success |-> TRUE, product |-> "found"]
       ELSE Failure(handleApiError("Get product")),
       <<Req("GET", "/products/" \o productId, Undefined)>>)

updateProduct(productId, net, k) ==
    Wp(IF net[k] THEN [success |-> TRUE, product |-> "updated"]
       ELSE Failure(handleApiError("Update product")),
       <<Req("PUT", "/products/" \o productId, Undefined)>>)

\* vendor_id is accepted and not sent: the request carries no vendor filter
listOrders(vendor_id, net, k) ==
    Wp(IF net[k] THEN [success |-> TRUE, orders |-> "listed", count |-> "n"]
       ELSE Failure(handleApiError("List orders")),
       <<Req("GET", "/orders", Undefined)>>)

getOrder(orderId, net, k) ==
    Wp(IF net[k] THEN [success |-> TRUE, order |-> "found"]
       ELSE Failure(handleApiError("Get order")),
       <<Req("GET", "/orders/" \o orderId, Undefined)>>)

updateOrderStatus(orderId, status, net, k) ==
    Wp(IF net[k] THEN [success |-> TRUE, order |-> "updated"]
       ELSE Failure(handleApiError("Update order status")),
       <<Req("PUT", "/orders/" \o orderId, Undefined)>>)

listVendors(net, k) ==
    Wp(IF net[k] THEN [success |-> TRUE, vendors |-> VendorDirectory]
       ELSE Failure(handleApiError("List vendors")),
       <<Req("GET", "/stores", Undefined)>>)

\* a store the backend does not hold is a 404, which axios throws
getVendor(vendorId, net, k) ==
    Wp(IF net[k] /\ vendorId \in VendorIds
       THEN [success |-> TRUE, vendor |-> VendorById(vendorId)]
       ELSE Failure(handleApiError("Get vendor")),
       <<Req("GET", "/stores/" \o vendorId, Undefined)>>)

getVendorDashboardStats(vendorId, net, k) ==
    LET first == Req("GET", "/stores/" \o vendorId \o "/stats", Undefined)
        orders == listOrders(vendorId, net, k + 1)
    IN  IF net[k] THEN Wp([success |-> TRUE, stats |-> "dokan"], <<first>>)
        ELSE Wp(IF orders.result.success
                THEN [success |-> TRUE, stats |-> "computed"]
                ELSE Failure(handleApiError("Get vendor stats")),
                <<first>> \o orders.reqs)

listCategories(net, k) ==
    Wp(IF net[k] THEN [success |-> TRUE, categories |-> "listed"]
       ELSE Failure(handleApiError("List categories")),
       <<Req("GET", "/products/categories", Undefined)>>)

createEvent(net, k) ==
    LET first == Req("POST", "/tribe_events", Undefined)
        second == Req("POST", "/posts", Undefined)
    IN  IF net[k] THEN Wp([success |-> TRUE, event |-> "created"], <<first>>)
        ELSE Wp(IF net[k + 1] THEN [success |-> TRUE, event |-> "created as post"]
                ELSE Failure(handleApiError("Create event (fallback)")),
                <<first, second>>)

----------------------------------------------------------------------------
(* Storage (app/lib/conversation.ts over Prisma).  whatsappNumber is the   *)
(* unique key of the conversation and vendorLink tables, so each is a map  *)
(* from identity to an optional row; messages and actionLog rows are kept  *)
(* in creation order.  A Prisma call that fails rejects with an Error.     *)

Identities == {"+254700000001", "+254700000002"}

DEFAULT_MAX_MESSAGES == 20

PrismaErrorMessage == "Can't reach database server"

\* the first n elements of a sequence
FirstN(s, n) == IF Len(s) <= n THEN s ELSE SubSeq(s, 1, n)

\* the last n elements of a sequence
LastN(s, n) == IF Len(s) <= n THEN s ELSE SubSeq(s, Len(s) - n + 1, Len(s))

Reverse(s) == [i \in 1..Len(s) |-> s[Len(s) + 1 - i]]

RECURSIVE SelectNonEmpty(_)
SelectNonEmpty(rows) ==
    IF rows = <<>> THEN <<>>
    ELSE IF Head(rows).content # None /\ Head(rows).content[1] # <<>>
         THEN <<Head(rows)>> \o SelectNonEmpty(Tail(rows))
         ELSE SelectNonEmpty(Tail(rows))

RECURSIVE MessagesOf(_, _)
MessagesOf(rows, conversationId) ==
    IF rows = <<>> THEN <<>>
    ELSE IF Head(rows).conversationId = conversationId
         THEN <<Head(rows)>> \o MessagesOf(Tail(rows), conversationId)
         ELSE MessagesOf(Tail(rows), conversationId)

\* a context builder that makes up a context for an identity it does not know
getConversationContextLenient(whatsappNumber, maxMessages, store, ok) ==
    [threw |-> FALSE, message |-> Undefined,
     context |-> Some([conversationId |-> "conv-" \o whatsappNumber,
                       whatsappNumber |-> whatsappNumber, vendorName |-> Null,
                       wpUserId |-> Null, wpStoreId |-> Null, isVerified |-> FALSE,
                       messageHistory |-> <<>>])]

\* getConversationContext: ok[1] is the conversation read, ok[2] the vendorLink read
getConversationContext(whatsappNumber, maxMessages, store, ok) ==
    LET found == store.conversations[whatsappNumber]
        conversation == found[1]
        link == store.vendorLinks[whatsappNumber]
        newestFirst == Reverse(LastN(MessagesOf(store.messages, conversation.id), maxMessages))
        kept == SelectNonEmpty(Reverse(newestFirst))
        messageHistory ==
            [i \in 1..Len(kept) |->
                [role |-> IF kept[i].direction = "INBOUND" THEN "user" ELSE "assistant",
                 content |-> kept[i].content[1]]]
    IN  IF ~ok[1] THEN [threw |-> TRUE, message |-> PrismaErrorMessage, context |-> None]
        ELSE IF found = None
        THEN [threw |-> TRUE, message |-> "No conversation found for " \o whatsappNumber,
              context |-> None]
        ELSE IF ~ok[2] THEN [threw |-> TRUE, message |-> PrismaErrorMessage, context |-> None]
        ELSE [threw |-> FALSE, message |-> Undefined,
              context |-> Some(
                [conversationId |-> conversation.id,
                 whatsappNumber |-> whatsappNumber,
                 vendorName |-> conversation.vendorName,
                 wpUserId |-> IF link # None THEN OrElse(link[1].wpUserId, conversation.wpUserId)
                              ELSE conversation.wpUserId,
                 wpStoreId |-> IF link # None THEN OrElse(link[1].wpStoreId, conversation.wpStoreId)
                               ELSE conversation.wpStoreId,
                 isVerified |-> IF link # None THEN link[1].verified ELSE FALSE,
                 messageHistory |-> messageHistory])]

\* the row prisma.actionLog.create is handed by logAction
ActionLogRow(params) ==
    [whatsappNumber |-> params.whatsappNumber, action |-> params.action,
     toolName |-> params.toolName, success |-> params.success,
     errorMessage |-> params.errorMessage, durationMs |-> params.durationMs]

\* a logAction that lets the rejection of the create through
logActionRethrowing(params, store, ok) ==
    IF ok THEN [threw |-> FALSE, message |-> Undefined,
                store |-> [store EXCEPT !.actionLog = Append(@, ActionLogRow(params))]]
    ELSE [threw |-> TRUE, message |-> PrismaErrorMessage, store |-> store]

\* logAction: the create either stores the row or rejects; a rejection is
\* caught and reported to the console only, so logAction never throws
logAction(params, store, ok) ==
    [threw |-> FALSE, message |-> Undefined,
     store |-> IF ok THEN [store EXCEPT !.actionLog = Append(@, ActionLogRow(params))]
               ELSE store]

\* a linkVendor that leaves the conversation row alone
linkVendorLinkOnly(params, store, ok) ==
    IF ~ok[1] THEN [threw |-> TRUE, message |-> PrismaErrorMessage, store |-> store]
    ELSE [threw |-> FALSE, message |-> Undefined,
          store |-> [store EXCEPT !.vendorLinks[params.whatsappNumber] =
                        Some([whatsappNumber |-> params.whatsappNumber,
                              wpUserId |-> params.wpUserId, wpStoreId |-> params.wpStoreId,
                              storeName |-> params.storeName, verified |-> TRUE])]]

\* linkVendor: ok[1] is the vendorLink upsert, ok[2] the conversation updateMany;
\* a failed write is logged and rethrown, with the earlier write kept
linkVendor(params, store, ok) ==
    LET row == [whatsappNumber |-> params.whatsappNumber, wpUserId |-> params.wpUserId,
                wpStoreId |-> params.wpStoreId, storeName |-> params.storeName,
                verified |-> TRUE]
        upserted == [store EXCEPT !.vendorLinks[params.whatsappNumber] = Some(row)]
        conv == upserted.conversations[params.whatsappNumber]
        updated ==
            IF conv = None THEN upserted
            ELSE [upserted EXCEPT !.conversations[params.whatsappNumber] =
                    Some([conv[1] EXCEPT !.wpUserId = params.wpUserId,
                                         !.wpStoreId = params.wpStoreId])]
    IN  IF ~ok[1] THEN [threw |-> TRUE, message |-> PrismaErrorMessage, store |-> store]
        ELSE IF ~ok[2]
        THEN [threw |-> TRUE, message |-> PrismaErrorMessage, store |-> upserted]
        ELSE [threw |-> FALSE, message |-> Undefined, store |-> updated]

\* getOrCreateConversation: ok[1] is the lookup, ok[2] the create or update;
\* a failed call is logged and rethrown
getOrCreateConversation(whatsappNumber, profileName, store, ok) ==
    LET found == store.conversations[whatsappNumber]
        created == [id |-> "conv-" \o whatsappNumber, whatsappNumber |-> whatsappNumber,
                    vendorName |-> OrElse(profileName, Null),
                    wpUserId |-> Null, wpStoreId |-> Null]
        named == [found[1] EXCEPT !.vendorName = profileName]
        failed == [threw |-> TRUE, message |-> PrismaErrorMessage,
                   conversation |-> None, store |-> store]
        got(row) == [threw |-> FALSE, message |-> Undefined, conversation |-> Some(row),
                     store |-> [store EXCEPT !.conversations[whatsappNumber] = Some(row)]]
    IN  IF ~ok[1] THEN failed
        ELSE IF found = None THEN (IF ok[2] THEN got(created) ELSE failed)
        ELSE IF Truthy(profileName) /\ ~Truthy(found[1].vendorName)
        THEN (IF ok[2] THEN got(named) ELSE failed)
        ELSE got(found[1])

\* storeMessage: ok[1] is the message create, ok[2] the update of the
\* conversation's lastMessageAt; a failed call is logged and rethrown, the
\* created message staying when only the update failed
storeMessage(params, store, ok) ==
    LET row == [conversationId |-> params.conversationId, direction |-> params.direction,
                content |-> params.content]
        created == [store EXCEPT !.messages = Append(@, row)]
    IN  IF ~ok[1] THEN [threw |-> TRUE, message |-> PrismaErrorMessage, store |-> store]
        ELSE IF ~ok[2] THEN [threw |-> TRUE, message |-> PrismaErrorMessage, store |-> created]
        ELSE [threw |-> FALSE, message |-> Undefined, store |-> created]

----------------------------------------------------------------------------
(* The tool dispatcher (lib/tool-executor.ts).  env.net answers the HTTP   *)
(* requests of this execution, env.store its storage writes.  What comes   *)
(* back is whether executeTool threw, the Error's message or the returned  *)
(* result, the backend requests made and the storage after the call.       *)

TypeErrorMessage == "Cannot read properties of null"

Returned(result, reqs, store) ==
    [threw |-> FALSE, message |-> Undefined, result |-> result, reqs |-> reqs,
     store |-> store]

Threw(message, reqs, store) ==
    [threw |-> TRUE, message |-> message, result |-> Failure(message), reqs |-> reqs,
     store |-> store]

\* tokens JSON.parse turns into numbers, which have no toLowerCase
IsNumberToken(t) == t \in {"0", "1", "7", "8", "9"}

\* String.prototype.toLowerCase on the e-mail tokens of the model
toLowerCase(t) ==
    CASE t = "Amina@Shop.ke" -> "amina@shop.ke"
      [] t = "ZAWADI@SHOP.KE" -> "zawadi@shop.ke"
      [] OTHER -> t

handleVerifyVendor(input, context, store, env) ==
    LET caught(message, reqs, st) ==
            Returned(Failure("Verification failed: " \o message), reqs, st)
        linked(vendor, reqs) ==
            LET l == linkVendor([whatsappNumber |-> context.whatsappNumber,
                                 wpUserId |-> vendor.id, wpStoreId |-> vendor.id,
                                 storeName |-> vendor.store_name], store, env.store)
            IN  IF l.threw THEN caught(l.message, reqs, l.store)
                ELSE Returned([success |-> TRUE, verified |-> TRUE,
                               vendor |-> [store_name |-> vendor.store_name,
                                           store_id |-> vendor.id]],
                              reqs, l.store)
        store_id == Prop(input, "store_id")
        store_email == Prop(input, "store_email")
        vendorResult == getVendor(store_id, env.net, 1)
        vendorsResult == listVendors(env.net, 1)
        matches == {v \in VendorDirectory : toLowerCase(v.email) = toLowerCase(store_email)}
    IN  IF input.type = "null" THEN caught(TypeErrorMessage, <<>>, store)
        ELSE IF Truthy(store_id)
        THEN IF vendorResult.result.success
             THEN linked(vendorResult.result.vendor, vendorResult.reqs)
             ELSE Returned(Failure("Could not find a store with that ID. Please double-check and try again."),
                           vendorResult.reqs, store)
        ELSE IF Truthy(store_email) /\ vendorsResult.result.success
        THEN IF IsNumberToken(store_email)
             THEN caught("input.store_email.toLowerCase is not a function",
                         vendorsResult.reqs, store)
             ELSE IF matches # {}
             THEN linked(CHOOSE v \in matches : TRUE, vendorsResult.reqs)
             ELSE Returned(Failure("Could not find a store with that email address. Please check and try again, or provide your store ID instead."),
                           vendorsResult.reqs, store)
        ELSE Returned(Failure("Please provide either your store email or store ID so I can verify your account."),
                      IF Truthy(store_email) THEN vendorsResult.reqs ELSE <<>>, store)

handleGenerateAdCopy(input, context, store, env) ==
    LET product_id == Prop(input, "product_id")
        product == getProduct(product_id, env.net, 1)
        fetched == Truthy(product_id)
        name == IF fetched /\ product.result.success THEN "product.name"
                ELSE Prop(input, "product_name")
    IN  IF input.type = "null"
        THEN Returned(Failure("Failed to generate ad copy: " \o TypeErrorMessage), <<>>, store)
        ELSE Returned([success |-> TRUE, agent |-> "AMY", product |-> name],
                      IF fetched THEN product.reqs ELSE <<>>, store)

handleBusinessInsights(input, context, store, env) ==
    LET vendorId == OrElse(Prop(input, "vendor_id"), context.wpStoreId)
        insight_type == Prop(input, "insight_type")
        unlinked == Returned(Failure("Vendor not verified. Link your store first!"), <<>>, store)
        stats == getVendorDashboardStats(vendorId, env.net, 1)
        ordersAfter == listOrders(vendorId, env.net, 1 + Len(stats.reqs))
        orders == listOrders(vendorId, env.net, 3)
        products == listProducts(vendorId, env.net, 4)
        pricing == listProducts(vendorId, env.net, 1)
        countOf(r) == IF r.success THEN r.count ELSE "0"
    IN  IF input.type = "null" THEN Threw(TypeErrorMessage, <<>>, store)
        ELSE CASE insight_type = "sales_summary" ->
                    IF ~Truthy(vendorId) THEN unlinked
                    ELSE Returned([success |-> TRUE, agent |-> "MIRA",
                                   insights |-> [stats |-> stats.result,
                                                 recent_orders |-> countOf(ordersAfter.result)]],
                                  stats.reqs \o ordersAfter.reqs, store)
               [] insight_type = "product_recommendations" ->
                    Returned([success |-> TRUE, agent |-> "MIRA",
                              recommendations |-> "static"], <<>>, store)
               [] insight_type = "pricing_advice" ->
                    IF ~Truthy(vendorId) THEN unlinked
                    ELSE Returned([success |-> TRUE, agent |-> "MIRA",
                                   pricing |-> IF pricing.result.success
                                               THEN pricing.result.products ELSE "[]"],
                                  pricing.reqs, store)
               [] insight_type = "marketing_tips" ->
                    Returned([success |-> TRUE, agent |-> "MIRA", tips |-> "static"],
                             <<>>, store)
               [] insight_type = "weekly_report" ->
                    IF ~Truthy(vendorId) THEN unlinked
                    ELSE Returned([success |-> TRUE, agent |-> "MIRA",
                                   weekly_report |->
                                      [stats |-> IF stats.result.success
                                                 THEN stats.result.stats ELSE Null,
                                       total_orders |-> countOf(orders.result),
                                       total_products |-> countOf(products.result)]],
                                  stats.reqs \o orders.reqs \o products.reqs, store)
               [] OTHER ->
                    Returned(Failure("Unknown insight type: " \o insight_type), <<>>, store)

HelpTopics ==
    {"general", "products", "orders", "store", "events", "advertising", "insights"}

getHelpText(topic) ==
    [success |-> TRUE,
     help_text |-> IF OrElse(topic, "general") \in HelpTopics
                   THEN OrElse(topic, "general") ELSE "general"]

\* a switch with no case for get_help
DispatcherCasesWithoutHelp ==
    {"create_product", "list_products", "get_product", "update_product",
     "list_orders", "get_order", "update_order_status", "list_categories",
     "get_vendor_info", "get_vendor_stats", "create_event", "verify_vendor",
     "generate_ad_copy", "get_business_insights"}

\* the tool names the switch of executeTool has a case for
DispatcherCases ==
    {"create_product", "list_products", "get_product", "update_product",
     "list_orders", "get_order", "update_order_status", "list_categories",
     "get_vendor_info", "get_vendor_stats", "create_event", "verify_vendor",
     "generate_ad_copy", "get_business_insights", "get_help"}

\* a default branch that throws
UnknownToolThrows(toolName, store) ==
    Threw("Unknown tool: " \o toolName, <<>>, store)

\* the default branch of the switch
UnknownTool(toolName, store) ==
    Returned(Failure("Unknown tool: " \o toolName), <<>>, store)

\* a null input makes the first input.<field> of a case throw a TypeError;
\* the verification and ad-copy handlers read it inside their own try
executeTool(toolName, input, context, store, env) ==
    LET net == env.net
        ofWp(w) == Returned(w.result, w.reqs, store)
        vendorId == OrElse(Prop(input, "vendor_id"), context.wpStoreId)
        noVendor == Returned(Failure("No vendor ID available. The vendor needs to verify their account first."),
                             <<>>, store)
    IN  IF toolName \notin DispatcherCases THEN UnknownTool(toolName, store)
        ELSE IF toolName = "verify_vendor"
        THEN handleVerifyVendor(input, context, store, env)
        ELSE IF toolName = "generate_ad_copy"
        THEN handleGenerateAdCopy(input, context, store, env)
        ELSE IF toolName = "get_business_insights"
        THEN handleBusinessInsights(input, context, store, env)
        ELSE IF input.type = "null" THEN Threw(TypeErrorMessage, <<>>, store)
        ELSE CASE toolName = "create_product" -> ofWp(createProduct(net, 1))
               [] toolName = "list_products" ->
                    ofWp(listProducts(OrElse(context.wpUserId, Undefined), net, 1))
               [] toolName = "get_product" ->
                    ofWp(getProduct(Prop(input, "product_id"), net, 1))
               [] toolName = "update_product" ->
                    ofWp(updateProduct(Prop(input, "product_id"), net, 1))
               [] toolName = "list_orders" ->
                    ofWp(listOrders(OrElse(context.wpUserId, Undefined), net, 1))
               [] toolName = "get_order" ->
                    ofWp(getOrder(Prop(input, "order_id"), net, 1))
               [] toolName = "update_order_status" ->
                    ofWp(updateOrderStatus(Prop(input, "order_id"),
                                           Prop(input, "status"), net, 1))
               [] toolName = "list_categories" -> ofWp(listCategories(net, 1))
               [] toolName = "get_vendor_info" ->
                    IF ~Truthy(vendorId) THEN noVendor
                    ELSE ofWp(getVendor(vendorId, net, 1))
               [] toolName = "get_vendor_stats" ->
                    IF ~Truthy(vendorId) THEN noVendor
                    ELSE ofWp(getVendorDashboardStats(vendorId, net, 1))
               [] toolName = "create_event" -> ofWp(createEvent(net, 1))
               [] toolName = "get_help" ->
                    Returned(getHelpText(Prop(input, "topic")), <<>>, store)

----------------------------------------------------------------------------
(* The agent loop (app/lib/agent.ts processMessage).  Its awaits cut it    *)
(* into steps: building the context, one model call with the handling of   *)
(* its response, and one iteration of the loop over the tool calls.        *)

\* the return of the try block and the return of the top-level catch
AgentResponse(reply, allToolCalls, totalTokens) ==
    [reply |-> reply,
     toolCalls |-> IF Len(allToolCalls) > 0 THEN Some(allToolCalls) ELSE None,
     tokensUsed |-> Some(totalTokens)]

ApologyResponse == [reply |-> APOLOGY_REPLY, toolCalls |-> None, tokensUsed |-> None]

\* a catch that hands back the reply gathered so far
CatchAllKeepingReply(st) ==
    [st EXCEPT !.inv.pc = "done",
               !.inv.ret = Some([reply |-> st.inv.finalReply, toolCalls |-> None,
                                 tokensUsed |-> None]),
               !.obs.exit = "caught"]

\* the top-level catch: whatever was thrown, the fixed apology is returned
CatchAll(st) ==
    [st EXCEPT !.inv.pc = "done", !.inv.ret = Some(ApologyResponse),
               !.obs.exit = "caught"]

\* lines 249-259: the return after the loop, which ended by break or by
\* its condition
ReturnReply(st, exit) ==
    [st EXCEPT !.inv.pc = "done",
               !.inv.ret = Some(AgentResponse(st.inv.finalReply, st.inv.allToolCalls,
                                              st.inv.totalTokens)),
               !.obs.exit = exit]

\* a loop condition that lets one round too many through
LoopGuardOffByOne(rounds) == rounds <= MAX_TOOL_ROUNDS

\* a loop that goes on while the model asks for tools
LoopGuardAlways(rounds) == TRUE

\* the loop condition of line 148, evaluated after a round's tool calls
LoopGuard(rounds) == rounds < MAX_TOOL_ROUNDS

\* lines 120-140: the context and the first transcript
BuildContextStep(st, ok) ==
    LET got == getConversationContext(st.inv.whatsappNumber, DEFAULT_MAX_MESSAGES, st.db, ok)
        context == got.context[1]
        currentMessageContent ==
            IF st.inv.mediaUrl # None
            THEN st.inv.userMessage \o <<"\n\n[The vendor sent an image/file: ">>
                    \o st.inv.mediaUrl[1] \o <<"]">>
            ELSE st.inv.userMessage
        messages ==
            <<[role |-> "system", content |-> Some(<<"system prompt">>),
               isVerified |-> context.isVerified]>>
            \o [i \in 1..Len(context.messageHistory) |->
                  [role |-> context.messageHistory[i].role,
                   content |-> Some(context.messageHistory[i].content)]]
            \o <<[role |-> "user", content |-> Some(currentMessageContent)]>>
        built == [st EXCEPT !.inv.context = got.context, !.inv.messages = messages]
    IN  IF got.threw THEN CatchAll(st)
        ELSE IF LoopGuard(0) THEN [built EXCEPT !.inv.pc = "model"]
        ELSE ReturnReply(built, "exhausted")

\* a break taken only when both conditions hold
StopsLoopOnBoth(toolCallsInResponse, finish_reason) ==
    Len(toolCallsInResponse) = 0 /\ finish_reason = "stop"

\* line 173: the response ends the loop
StopsLoop(toolCallsInResponse, finish_reason) ==
    Len(toolCallsInResponse) = 0 \/ finish_reason = "stop"

\* the loop over the tool calls goes on, or is over: then the next round
\* starts if the loop condition holds, and the reply is returned if not
AfterIteration(st) ==
    IF st.inv.pending # <<>> THEN [st EXCEPT !.inv.pc = "tools"]
    ELSE IF LoopGuard(st.inv.rounds) THEN [st EXCEPT !.inv.pc = "model"]
    ELSE ReturnReply(st, "exhausted")

\* lines 159-181: what the loop does with the model's response
HandleResponse(st, response) ==
    LET totalTokens == st.inv.totalTokens +
                         (IF response.usage # None THEN response.usage[1] ELSE 0)
        finalReply == IF response.content # None /\ response.content[1] # <<>>
                      THEN trim(response.content[1]) ELSE st.inv.finalReply
        toolCallsInResponse == response.tool_calls
        counted == [st EXCEPT !.inv.totalTokens = totalTokens,
                              !.inv.finalReply = finalReply]
    IN  IF StopsLoop(toolCallsInResponse, response.finish_reason)
        THEN ReturnReply([counted EXCEPT !.inv.finalReply =
                            IF finalReply = <<>> THEN FALLBACK_REPLY ELSE finalReply],
                         "break")
        ELSE AfterIteration(
               [counted EXCEPT
                  !.inv.messages = Append(@, [role |-> "assistant",
                                              content |-> response.content,
                                              tool_calls |-> toolCallsInResponse]),
                  !.inv.pending = toolCallsInResponse])

\* lines 149-181: rounds++, the model call, and the handling of its response
CallModelStep(st, response) ==
    LET called == [st EXCEPT !.inv.rounds = @ + 1, !.obs.modelCalls = @ + 1]
        answered == [called EXCEPT
                       !.obs.requested = @ + Len(response.tool_calls),
                       !.obs.asked = Append(@, Len(response.tool_calls)),
                       !.obs.contents = Append(@, response.content),
                       !.obs.usages = Append(@, response.usage)]
    IN  IF response.threw THEN CatchAll([called EXCEPT !.obs.modelThrew = TRUE])
        ELSE HandleResponse(answered, response)

\* Date.now() - toolStartTime, clock holding the two readings of Date.now()
Duration(clock) == clock[2] - clock[1]

\* a flag that only looks at whether executeTool returned
SuccessFlagOfReturn(result) == TRUE

\* result?.success !== false
SuccessFlag(result) == ~("success" \in DOMAIN result /\ result.success = FALSE)

\* result?.error
ErrorOf(result) == IF "error" \in DOMAIN result THEN result.error ELSE Undefined

\* a catch block that leaves the input null
ParsedToolInputNull(arguments) ==
    IF JSONParse(arguments).ok THEN JSONParse(arguments).value ELSE JsNull

\* lines 189-193: the parsed arguments, or an empty object when they do not parse
ParsedToolInput(arguments) ==
    IF JSONParse(arguments).ok THEN JSONParse(arguments).value ELSE JsObject(<<>>)

\* lines 221-225: the transcript entry for a tool call that returned
ToolMessage(tool_call_id, result) ==
    [role |-> "tool", tool_call_id |-> tool_call_id, content |-> JSONStringify(result)]

\* a catch block that reports the error without the success flag
CaughtToolMessageBare(tool_call_id, message) ==
    [role |-> "tool", tool_call_id |-> tool_call_id,
     content |-> JSONStringify([error |-> message])]

\* lines 240-244: the transcript entry for a tool call that threw
CaughtToolMessage(tool_call_id, message) ==
    [role |-> "tool", tool_call_id |-> tool_call_id,
     content |-> JSONStringify([success |-> FALSE, error |-> message])]

\* lines 184-246: one iteration of the loop over toolCallsInResponse
ToolIterationStep(st, env) ==
    LET toolCall == Head(st.inv.pending)
        rest == [st EXCEPT !.inv.pending = Tail(@)]
        toolName == toolCall.name
        toolInput == ParsedToolInput(toolCall.arguments)
        run == executeTool(toolName, toolInput, st.inv.context[1], st.db, env)
        ran == [rest EXCEPT
                  !.db = run.store,
                  !.obs.executed = Append(@, [toolName |-> toolName, input |-> toolInput,
                                              arguments |-> toolCall.arguments,
                                              threw |-> run.threw, result |-> run.result,
                                              reqs |-> run.reqs,
                                              wrote |-> run.store # st.db])]
        duration == Duration(env.clock)
        \* the try branch, lines 199-225
        pushed == [ran EXCEPT !.inv.allToolCalls =
                      Append(@, [name |-> toolName, input |-> toolInput,
                                 result |-> run.result])]
        okParams == [whatsappNumber |-> st.inv.whatsappNumber, action |-> toolName,
                     toolName |-> toolName, success |-> SuccessFlag(run.result),
                     errorMessage |-> ErrorOf(run.result), durationMs |-> duration]
        okLog == logAction(okParams, pushed.db, env.log[1])
        okLogged == [pushed EXCEPT
                       !.db = okLog.store,
                       !.obs.logWrites = Append(@, [row |-> ActionLogRow(okParams),
                                                    stored |-> env.log[1]])]
        okDone == [okLogged EXCEPT !.inv.messages =
                      Append(@, ToolMessage(toolCall.id, run.result))]
        \* the catch branch, lines 226-245, entered with the Error caught
        caught(from, message, k) ==
            LET params == [whatsappNumber |-> st.inv.whatsappNumber, action |-> toolName,
                           toolName |-> toolName, success |-> FALSE,
                           errorMessage |-> message, durationMs |-> duration]
                log == logAction(params, from.db, env.log[k])
                logged == [from EXCEPT
                             !.db = log.store,
                             !.obs.logWrites = Append(@, [row |-> ActionLogRow(params),
                                                          stored |-> env.log[k]])]
            IN  IF log.threw THEN CatchAll(logged)
                ELSE AfterIteration(
                        [logged EXCEPT !.inv.messages =
                            Append(@, CaughtToolMessage(toolCall.id, message))])
    IN  IF toolCall.type # "function" THEN AfterIteration(rest)
        ELSE IF run.threw THEN caught(ran, run.message, 1)
        ELSE IF okLog.threw THEN caught(okLogged, okLog.message, 2)
        ELSE AfterIteration(okDone)

----------------------------------------------------------------------------
(* The WhatsApp webhook (POST /api/whatsapp) and the Twilio client.  The   *)
(* handler exists in two variants: one sends the reply through Twilio's    *)
(* REST API and answers the webhook with an empty TwiML document, the      *)
(* other answers the webhook with the reply inside the TwiML document.     *)

\* parseWhatsAppNumber: the From field without its whatsapp: prefix
parseWhatsAppNumber(from) ==
    IF Len(from) > 1 /\ Head(from) = "whatsapp:" THEN from[2] ELSE from[1]

\* the locals of a processMessage call before its first statement
Invocation(whatsappNumber, userMessage, mediaUrl) ==
    [pc |-> "start", whatsappNumber |-> whatsappNumber, userMessage |-> userMessage,
     mediaUrl |-> mediaUrl, context |-> None, messages |-> <<>>,
     allToolCalls |-> <<>>, totalTokens |-> 0, finalReply |-> <<>>,
     rounds |-> 0, pending |-> <<>>, ret |-> None]

\* '<Response></Response>' and '<Response><Message>...</Message></Response>'
EmptyTwiml == [status |-> 200, message |-> None]
MessageTwiml(text) == [status |-> 200, message |-> Some(text)]
InvalidSignature == [status |-> 403, message |-> None]

\* the replacement of &, < and > in the TwiML variant
escapeXml(text) ==
    [i \in 1..Len(text) |->
        CASE text[i] = "&" -> "&amp;"
          [] text[i] = "<" -> "&lt;"
          [] text[i] = ">" -> "&gt;"
          [] OTHER -> text[i]]

\* sendWhatsAppMessage for a body within the split limit: one
\* client.messages.create, whose rejection is caught and reported in the result
sendWhatsAppMessage(to, body, ok) ==
    IF ok THEN [result |-> [success |-> TRUE], created |-> <<[to |-> to, body |-> body]>>]
    ELSE [result |-> Failure("Twilio error"), created |-> <<>>]

\* the handler has answered the webhook
Responded(w, response) ==
    [w EXCEPT !.hook.pc = "responded", !.hook.response = Some(response)]

\* the handler up to its call of processMessage: the signature check of the
\* REST variant, the empty-message skip, the conversation and the inbound
\* message.  ok[1..2] answer getOrCreateConversation, ok[3..4] storeMessage.
WebhookReceiveStep(w, ok) ==
    LET h == w.hook
        whatsappNumber == parseWhatsAppNumber(h.from)
        got == getOrCreateConversation(whatsappNumber, h.profileName, w.db, <<ok[1], ok[2]>>)
        stored == storeMessage([conversationId |-> got.conversation[1].id,
                                direction |-> "INBOUND",
                                content |-> IF h.body # <<>> THEN Some(h.body) ELSE None],
                               got.store, <<ok[3], ok[4]>>)
    IN  IF h.variant = "rest" /\ ~h.signed THEN Responded(w, InvalidSignature)
        ELSE IF h.body = <<>> /\ h.mediaUrl = None THEN Responded(w, EmptyTwiml)
        ELSE IF got.threw THEN Responded(w, EmptyTwiml)
        ELSE IF stored.threw THEN Responded([w EXCEPT !.db = stored.store], EmptyTwiml)
        ELSE [w EXCEPT !.db = stored.store,
                       !.inv = Invocation(whatsappNumber, h.body, h.mediaUrl),
                       !.hook.pc = "processing",
                       !.hook.conversationId = Some(got.conversation[1].id)]

\* the handler after processMessage returned: the outbound message is
\* stored, then the reply is sent (REST) or put into the response (TwiML)
WebhookReplyStep(w, env) ==
    LET h == w.hook
        agentResponse == w.inv.ret[1]
        stored == storeMessage([conversationId |-> h.conversationId[1],
                                direction |-> "OUTBOUND",
                                content |-> Some(agentResponse.reply)],
                               w.db, env.store)
        kept == [w EXCEPT !.db = stored.store]
        send == sendWhatsAppMessage(h.from, agentResponse.reply, env.twilio)
    IN  IF stored.threw THEN Responded(kept, EmptyTwiml)
        ELSE IF h.variant = "rest"
        THEN Responded([kept EXCEPT !.hook.sent = @ \o send.created], EmptyTwiml)
        ELSE Responded(kept, MessageTwiml(escapeXml(agentResponse.reply)))

----------------------------------------------------------------------------
(* The environment: what the caller, the model, the backend, the storage   *)
(* and the clock may do.  The three specifications below run the same      *)
(* program against three environments, each wide in one direction: Spec in *)
(* what the model says, SpecTools in the tools it asks for and what they   *)
(* meet, SpecLog in what the action log and the clock do.                  *)

Caller == "+254700000001"

UserMessage == <<"Show me my products">>

\* the texts a model response may carry: none, blank, and two replies
Contents == {None, Some(<<" ">>), Some(<<"A">>), Some(<<" ", "B", " ">>)}

FinishReasons == {"stop", "tool_calls", "length"}

\* response.usage.total_tokens, when the response reports usage
UsageValues == {None, Some(120)}

\* tool calls: a backend read, a null argument value (the dispatcher throws),
\* a call that is no function call
LoopKinds ==
    { [type |-> "function", name |-> "list_products", arguments |-> <<"{", "}">>],
      [type |-> "function", name |-> "update_product", arguments |-> <<"null">>],
      [type |-> "custom", name |-> "list_products", arguments |-> <<"{", "}">>] }

\* tool calls: also a name the dispatcher has no case for, an argument
\* string cut short, and a verification by store ID
ToolKinds ==
    LoopKinds \cup
    { [type |-> "function", name |-> "delete_store", arguments |-> <<"{", "}">>],
      [type |-> "function", name |-> "get_help", arguments |-> <<"{", "topic", ":">>],
      [type |-> "function", name |-> "verify_vendor",
       arguments |-> <<"{", "store_id", ":", "7", "}">>] }

\* tool calls: verification by the ID of a store the backend holds and of
\* one it does not, and two store-mutating tools
VendorKinds ==
    { [type |-> "function", name |-> "verify_vendor",
       arguments |-> <<"{", "store_id", ":", "7", "}">>],
      [type |-> "function", name |-> "verify_vendor",
       arguments |-> <<"{", "store_id", ":", "9", "}">>],
      [type |-> "function", name |-> "create_product", arguments |-> <<"{", "}">>],
      [type |-> "function", name |-> "update_order_status",
       arguments |-> <<"{", "order_id", ":", "1", "}">>] }

\* tool calls: a backend read and a thrown TypeError
LogKinds ==
    { [type |-> "function", name |-> "list_products", arguments |-> <<"{", "}">>],
      [type |-> "function", name |-> "update_product", arguments |-> <<"null">>] }

CallId(n) == "call_" \o ToString(n)

\* the tool_calls lists of n requests, the first of them numbered from + 1
ToolCallLists(n, from, kinds) ==
    { [i \in 1..n |-> [id |-> CallId(from + i), type |-> ks[i].type,
                       name |-> ks[i].name, arguments |-> ks[i].arguments]] :
        ks \in [1..n -> kinds] }

Min(a, b) == IF a < b THEN a ELSE b

ModelThrows ==
    [threw |-> TRUE, content |-> None, tool_calls |-> <<>>, finish_reason |-> "stop",
     usage |-> None]

\* what openai.chat.completions.create may do: throw, or answer
ModelResponses(requested, kinds, contents, usages) ==
    { ModelThrows }
    \cup
    UNION { [threw : {FALSE}, content : contents,
             tool_calls : ToolCallLists(n, requested, kinds),
             finish_reason : FinishReasons, usage : usages] :
            n \in 0..Min(MaxCallsPerResponse, MaxToolCalls - requested) }

AllUp == <<TRUE, TRUE, TRUE, TRUE>>
AllDown == <<FALSE, FALSE, FALSE, FALSE>>

\* the action log stores every row and the clock stands still
QuietEnv(net, store) ==
    [net |-> net, store |-> store, log |-> <<TRUE, TRUE>>, clock |-> <<0, 0>>]

\* Spec: the backend answers every request of a tool execution or none
LoopEnvs == { QuietEnv(net, <<TRUE, TRUE>>) : net \in {AllUp, AllDown} }

\* SpecTools: also only the first request failing, and storage writes failing
ToolEnvs ==
    { QuietEnv(net, store) :
        net \in {AllUp, AllDown, <<FALSE, TRUE, TRUE, TRUE>>},
        store \in {<<TRUE, TRUE>>, <<TRUE, FALSE>>, <<FALSE, FALSE>>} }

\* SpecVendor: the backend answers or not, and either write of linkVendor
\* may be the first to fail
VendorEnvs ==
    { QuietEnv(net, store) :
        net \in {AllUp, AllDown},
        store \in {<<TRUE, TRUE>>, <<TRUE, FALSE>>, <<FALSE, FALSE>>} }

\* the two readings of Date.now() around a tool execution: the clock did
\* not move between them, or it advanced by MaxTick
Clocks == { <<0, 0>>, <<0, MaxTick>> }

\* SpecLog: each actionLog write stores its row or rejects, and time passes
LogEnvs ==
    [net : {AllUp, AllDown}, store : {<<TRUE, TRUE>>},
     log : {<<TRUE, TRUE>>, <<FALSE, FALSE>>, <<FALSE, TRUE>>}, clock : Clocks]

\* the reads of getConversationContext succeed or fail
ReadOutcomes == { <<TRUE, TRUE>>, <<TRUE, FALSE>>, <<FALSE, FALSE>> }

ConversationRow(whatsappNumber) ==
    [id |-> "conv-" \o whatsappNumber, whatsappNumber |-> whatsappNumber,
     vendorName |-> "Amina", wpUserId |-> Null, wpStoreId |-> Null]

InboundRow(whatsappNumber, content) ==
    [conversationId |-> "conv-" \o whatsappNumber, direction |-> "INBOUND",
     content |-> content]

LinkRow(whatsappNumber, vendor) ==
    [whatsappNumber |-> whatsappNumber, wpUserId |-> vendor.id, wpStoreId |-> vendor.id,
     storeName |-> vendor.store_name, verified |-> TRUE]

EmptyStore ==
    [conversations |-> [n \in Identities |-> None],
     messages |-> <<>>,
     vendorLinks |-> [n \in Identities |-> None],
     actionLog |-> <<>>]

\* the conversation the ingestion path created and stored the inbound message in
IngestedStore(link) ==
    [EmptyStore EXCEPT !.conversations[Caller] = Some(ConversationRow(Caller)),
                       !.messages = <<InboundRow(Caller, Some(UserMessage))>>,
                       !.vendorLinks[Caller] = link]

NoMedia == None
MediaUrl == Some(<<"https://api.twilio.com/media/ME1">>)

\* a call of processMessage for a caller without a conversation (the
\* ingestion path was skipped), for an unlinked one who sent a file, and for
\* a verified vendor
UnknownCaller == [store |-> EmptyStore, mediaUrl |-> NoMedia]
UnlinkedCaller == [store |-> IngestedStore(None), mediaUrl |-> MediaUrl]
LinkedCaller ==
    [store |-> IngestedStore(Some(LinkRow(Caller, VendorById("8")))), mediaUrl |-> NoMedia]

\* processMessage was called directly, by no webhook handler
NoHook == [pc |-> "none"]

\* a webhook request: which handler variant serves it, whether its Twilio
\* signature is accepted, and the From, Body, ProfileName and media fields
Inbound(variant, signed, body, mediaUrl) ==
    [pc |-> "received", variant |-> variant, signed |-> signed,
     from |-> <<"whatsapp:", Caller>>, body |-> body, profileName |-> "Amina",
     mediaUrl |-> mediaUrl, conversationId |-> None, sent |-> <<>>, response |-> None]

Inbounds ==
    { Inbound(variant, signed, body, mediaUrl) :
        variant \in {"rest", "twiml"}, signed \in BOOLEAN,
        body \in {<<>>, UserMessage}, mediaUrl \in {NoMedia, MediaUrl} }

\* the storage calls of the handler before processMessage: all succeed, or
\* one of them is the first to fail
ReceiveOutcomes ==
    { <<TRUE, TRUE, TRUE, TRUE>>, <<FALSE, TRUE, TRUE, TRUE>>, <<TRUE, FALSE, TRUE, TRUE>>,
      <<TRUE, TRUE, FALSE, TRUE>>, <<TRUE, TRUE, TRUE, FALSE>> }

\* the storage calls and the Twilio call of the handler after processMessage
ReplyEnvs ==
    [store : {<<TRUE, TRUE>>, <<FALSE, FALSE>>, <<TRUE, FALSE>>}, twilio : BOOLEAN]

\* nothing observed yet: the model calls made and whether one threw, the
\* tool calls each response asked for, the text and the usage it carried, the
\* dispatcher invocations, the actionLog writes, and how the invocation ended
NoObservations ==
    [modelCalls |-> 0, modelThrew |-> FALSE, requested |-> 0, asked |-> <<>>,
     contents |-> <<>>, usages |-> <<>>, executed |-> <<>>, logWrites |-> <<>>, exit |-> "running"]

----------------------------------------------------------------------------
(* The state machine                                                       *)

State == [inv |-> inv, db |-> db, obs |-> obs]

Becomes(st) == inv' = st.inv /\ db' = st.db /\ obs' = st.obs /\ hook' = hook

World == [inv |-> inv, db |-> db, obs |-> obs, hook |-> hook]

BecomesWorld(w) == inv' = w.inv /\ db' = w.db /\ obs' = w.obs /\ hook' = w.hook

InitFrom(calls) ==
    \E call \in calls :
        /\ inv = Invocation(Caller, UserMessage, call.mediaUrl)
        /\ db = call.store
        /\ obs = NoObservations
        /\ hook = NoHook

BuildContext ==
    /\ inv.pc = "start"
    /\ \E ok \in ReadOutcomes : Becomes(BuildContextStep(State, ok))

CallModelFrom(responses) ==
    /\ inv.pc = "model"
    /\ \E response \in responses : Becomes(CallModelStep(State, response))

ToolIterationIn(envs) ==
    /\ inv.pc = "tools"
    /\ \E env \in envs : Becomes(ToolIterationStep(State, env))

\* Spec: the model says anything; the tools are a read that succeeds or
\* fails, a call that throws and a call that is skipped
Init == InitFrom({UnknownCaller, LinkedCaller})

CallModel == CallModelFrom(ModelResponses(obs.requested, LoopKinds, Contents, {Some(120)}))

ToolIteration == ToolIterationIn(LoopEnvs)

Next == BuildContext \/ CallModel \/ ToolIteration

Spec == Init /\ [][Next]_vars

\* SpecTools: the model asks for every kind of tool call and says nothing
InitTools == InitFrom({UnknownCaller, UnlinkedCaller, LinkedCaller})

CallModelTools ==
    CallModelFrom(ModelResponses(obs.requested, ToolKinds, {None}, {Some(120)}))

ToolIterationTools == ToolIterationIn(ToolEnvs)

NextTools == BuildContext \/ CallModelTools \/ ToolIterationTools

SpecTools == InitTools /\ [][NextTools]_vars

\* SpecLog: the action log rejects writes and the clock moves
InitLog == InitFrom({UnknownCaller, LinkedCaller})

CallModelLog ==
    CallModelFrom(ModelResponses(obs.requested, LogKinds, {Some(<<"A">>)}, {Some(120)}))

ToolIterationLog == ToolIterationIn(LogEnvs)

NextLog == BuildContext \/ CallModelLog \/ ToolIterationLog

SpecLog == InitLog /\ [][NextLog]_vars

\* SpecUsage: a response reports its usage or does not, and carries a text
\* or none; the tools are a read and a call that throws
InitUsage == InitFrom({UnknownCaller, LinkedCaller})

CallModelUsage ==
    CallModelFrom(ModelResponses(obs.requested, LogKinds, {None, Some(<<"A">>)}, UsageValues))

ToolIterationUsage == ToolIterationIn(LoopEnvs)

NextUsage == BuildContext \/ CallModelUsage \/ ToolIterationUsage

SpecUsage == InitUsage /\ [][NextUsage]_vars

\* SpecVendor: the model asks for verifications and for store-mutating
\* tools, for a caller without a link and for a linked one
InitVendor == InitFrom({UnlinkedCaller, LinkedCaller})

CallModelVendor ==
    CallModelFrom(ModelResponses(obs.requested, VendorKinds, {None}, {Some(120)}))

ToolIterationVendor == ToolIterationIn(VendorEnvs)

NextVendor == BuildContext \/ CallModelVendor \/ ToolIterationVendor

SpecVendor == InitVendor /\ [][NextVendor]_vars

\* SpecWebhook: one webhook request from its arrival to the handler's
\* response; storage and Twilio may fail, the model answers with a text or
\* none and asks for a read.  Every await of the handler eventually
\* resolves or rejects.
InitWebhook ==
    /\ hook \in Inbounds
    /\ inv = [Invocation(Caller, hook.body, hook.mediaUrl) EXCEPT !.pc = "idle"]
    /\ db \in {EmptyStore, IngestedStore(None)}
    /\ obs = NoObservations

WebhookReceive ==
    /\ hook.pc = "received"
    /\ \E ok \in ReceiveOutcomes : BecomesWorld(WebhookReceiveStep(World, ok))

WebhookReply ==
    /\ hook.pc = "processing" /\ inv.pc = "done"
    /\ \E env \in ReplyEnvs : BecomesWorld(WebhookReplyStep(World, env))

CallModelWebhook ==
    CallModelFrom(ModelResponses(obs.requested,
                                 {[type |-> "function", name |-> "list_products",
                                   arguments |-> <<"{", "}">>]},
                                 {None, Some(<<"A">>)}, {Some(120)}))

ToolIterationWebhook == ToolIterationIn(LoopEnvs)

NextWebhook ==
    WebhookReceive \/ BuildContext \/ CallModelWebhook \/ ToolIterationWebhook
        \/ WebhookReply

SpecWebhook == InitWebhook /\ [][NextWebhook]_vars /\ WF_vars(NextWebhook)

----------------------------------------------------------------------------
(* Properties of processMessage                                            *)

Last(seq) == seq[Len(seq)]

\* the texts the model produced in this invocation, trimmed, in order
RECURSIVE TextsOf(_)
TextsOf(contents) ==
    IF contents = <<>> THEN <<>>
    ELSE IF Head(contents) # None /\ trim(Head(contents)[1]) # <<>>
         THEN <<trim(Head(contents)[1])>> \o TextsOf(Tail(contents))
         ELSE TextsOf(Tail(contents))

\* C1: processMessage always returns a non-empty reply string, whatever the
\* model, the tools, the context lookup and the action log do.
C1_ReplyNeverEmpty ==
    inv.pc = "done" => (inv.ret # None /\ inv.ret[1].reply # <<>>)

\* C2: one invocation never makes more than MAX_TOOL_ROUNDS model calls.
C2_ModelCallsWithinCap == obs.modelCalls <= MAX_TOOL_ROUNDS

\* the cap is reached: three model calls, each answered with tool calls
C2_Witness ==
    /\ inv.pc = "done" /\ obs.modelCalls = MAX_TOOL_ROUNDS
    /\ obs.exit = "exhausted" /\ Len(obs.executed) = 3

\* C3: when the rounds run out with every response asking for tools, the
\* reply is the last text a round produced, or the generic fallback string
\* when no round produced text.
C3_ExhaustedReply ==
    obs.exit = "exhausted" =>
        inv.ret[1].reply = IF TextsOf(obs.contents) # <<>>
                           THEN Last(TextsOf(obs.contents)) ELSE FALLBACK_REPLY

\* C4: a first response without tool calls means no dispatcher invocation,
\* exactly one model call and no action log write.
C4_NoToolsOnFirstResponse ==
    (obs.asked # <<>> /\ obs.asked[1] = 0) =>
        /\ obs.executed = <<>>
        /\ obs.modelCalls = 1
        /\ obs.logWrites = <<>> /\ db.actionLog = <<>>
        /\ inv.pc = "done" /\ obs.exit = "break"

\* the first response carried a text and no tool call, and was returned
C4_Witness ==
    /\ inv.pc = "done" /\ obs.asked = <<0>>
    /\ inv.ret[1].reply = <<"B">> /\ inv.ret[1].toolCalls = None

\* the dispatcher invocation a step made, if it made one
Invoked == Len(obs'.executed) = Len(obs.executed) + 1

\* C5: a tool invocation that throws or returns a failure result does not
\* end the loop: a {success:false, error} result for that call is appended
\* to the transcript, the round's remaining tool calls stay to be executed,
\* and after the last of them the next model call follows if rounds remain.
C5_FailureStep ==
    (Invoked /\ (Last(obs'.executed).threw \/ ~Last(obs'.executed).result.success)) =>
        LET m == Last(inv'.messages)
            rest == Tail(inv.pending)
        IN  /\ Len(inv'.messages) = Len(inv.messages) + 1
            /\ m.role = "tool" /\ m.tool_call_id = Head(inv.pending).id
            /\ DOMAIN m.content.json = {"success", "error"}
            /\ m.content.json.success = FALSE
            /\ inv'.pending = rest
            /\ obs'.exit # "caught"
            /\ inv'.pc = IF rest # <<>> THEN "tools"
                         ELSE IF inv.rounds < MAX_TOOL_ROUNDS THEN "model" ELSE "done"

\* the function tool calls the transcript's assistant messages ask for
RECURSIVE FunctionCallsIn(_)
FunctionCallsIn(messages) ==
    IF messages = <<>> THEN 0
    ELSE (IF "tool_calls" \in DOMAIN Head(messages)
          THEN Cardinality({i \in 1..Len(Head(messages).tool_calls) :
                                Head(messages).tool_calls[i].type = "function"})
          ELSE 0) + FunctionCallsIn(Tail(messages))

\* the tool results the transcript holds
RECURSIVE ToolResultsIn(_)
ToolResultsIn(messages) ==
    IF messages = <<>> THEN 0
    ELSE (IF Head(messages).role = "tool" THEN 1 ELSE 0) + ToolResultsIn(Tail(messages))

\* between rounds every tool call asked for has been executed and answered
C5_RoundsCompleted ==
    (inv.pc \in {"model", "done"} /\ obs.exit # "caught") =>
        /\ Len(obs.executed) = FunctionCallsIn(inv.messages)
        /\ ToolResultsIn(inv.messages) = FunctionCallsIn(inv.messages)

C5_ToolFailureNeverAborts == []C5_RoundsCompleted /\ [][C5_FailureStep]_vars

\* a round of two tool calls whose first threw and whose second returned a
\* failure result, followed by another model call
C5_Witness ==
    /\ Len(obs.asked) >= 2 /\ obs.asked[1] = 2 /\ Len(obs.executed) >= 2
    /\ obs.executed[1].threw
    /\ ~obs.executed[2].threw /\ ~obs.executed[2].result.success
    /\ obs.modelCalls >= 2

\* C6: every dispatcher invocation is followed by exactly one actionLog
\* write; its success flag is false exactly when the tool threw or returned
\* success=false, its duration is not negative, and the table holds the
\* rows of the writes that were not rejected.
RECURSIVE StoredRows(_)
StoredRows(writes) ==
    IF writes = <<>> THEN <<>>
    ELSE (IF Head(writes).stored THEN <<Head(writes).row>> ELSE <<>>)
            \o StoredRows(Tail(writes))

C6_OneLogWritePerInvocation ==
    /\ Len(obs.logWrites) = Len(obs.executed)
    /\ \A i \in 1..Len(obs.executed) :
         LET e == obs.executed[i]
             w == obs.logWrites[i].row
         IN  /\ w.toolName = e.toolName /\ w.whatsappNumber = inv.whatsappNumber
             /\ w.success = ~(e.threw \/ ~e.result.success)
             /\ w.durationMs >= 0
    /\ db.actionLog = StoredRows(obs.logWrites)

\* a tool that threw, one that returned a failure and one that succeeded
\* after time had passed, with one of the three writes rejected
C6_Witness ==
    /\ Len(obs.executed) = 3
    /\ obs.executed[1].threw
    /\ ~obs.executed[2].threw /\ ~obs.executed[2].result.success
    /\ ~obs.executed[3].threw /\ obs.executed[3].result.success
    /\ obs.logWrites[3].row.durationMs > 0
    /\ ~obs.logWrites[2].stored /\ Len(db.actionLog) = 2

\* what the caller and the collaborators other than the action log see
Visible(st) ==
    [inv |-> st.inv, executed |-> st.obs.executed, modelCalls |-> st.obs.modelCalls,
     conversations |-> st.db.conversations, messages |-> st.db.messages,
     vendorLinks |-> st.db.vendorLinks]

\* the same state with an action log that lost every row
Forgetting(st) == [st EXCEPT !.db.actionLog = <<>>]

\* the same environment with an action log that stores every row
Storing(env) == [env EXCEPT !.log = <<TRUE, TRUE>>]

\* C7: the outcome of an actionLog write changes nothing but the action
\* log: from any state, a step taken with writes rejected or rows missing
\* leaves the locals, the return value, the dispatcher calls and the other
\* tables as the same step does with every write stored.
C7_LogWritesInvisible ==
    /\ inv.pc = "start" =>
         \A ok \in ReadOutcomes :
            Visible(BuildContextStep(State, ok)) =
                Visible(BuildContextStep(Forgetting(State), ok))
    /\ inv.pc = "model" =>
         \A response \in ModelResponses(obs.requested, LogKinds, {Some(<<"A">>)}, {Some(120)}) :
            Visible(CallModelStep(State, response)) =
                Visible(CallModelStep(Forgetting(State), response))
    /\ inv.pc = "tools" =>
         \A env \in LogEnvs :
            Visible(ToolIterationStep(State, env)) =
                Visible(ToolIterationStep(Forgetting(State), Storing(env)))

\* an invocation that returned its tool calls although a write was rejected
C7_Witness ==
    /\ inv.pc = "done" /\ obs.exit = "break" /\ inv.ret[1].toolCalls # None
    /\ \E i \in 1..Len(obs.logWrites) : ~obs.logWrites[i].stored
    /\ Len(db.actionLog) < Len(obs.executed)

\* C8: a tool call whose argument string does not parse is dispatched with
\* an empty argument object, and the invocation does not end in the catch.
C8_UnparseableStep ==
    (inv.pc = "tools" /\ Head(inv.pending).type = "function"
        /\ ~JSONParse(Head(inv.pending).arguments).ok) =>
        /\ Invoked
        /\ Last(obs'.executed).toolName = Head(inv.pending).name
        /\ Last(obs'.executed).input = JsObject(<<>>)
        /\ obs'.exit # "caught"

C8_UnparseableArgumentsAsEmpty == [][C8_UnparseableStep]_vars

\* get_help was asked for with a truncated argument string and answered
C8_Witness ==
    \E i \in 1..Len(obs.executed) :
        /\ obs.executed[i].toolName = "get_help"
        /\ ~JSONParse(obs.executed[i].arguments).ok
        /\ obs.executed[i].input = JsObject(<<>>)
        /\ ~obs.executed[i].threw /\ obs.executed[i].result.success

\* C9: a tool name the dispatcher has no case for yields {success:false,
\* error} without a throw, a backend request or a storage write, and the
\* loop carries on with that result.
C9_UnknownStep ==
    (Invoked /\ Last(obs'.executed).toolName \notin DispatcherCases) =>
        LET e == Last(obs'.executed)
        IN  /\ ~e.threw
            /\ DOMAIN e.result = {"success", "error"} /\ e.result.success = FALSE
            /\ e.reqs = <<>> /\ ~e.wrote /\ [db' EXCEPT !.actionLog = <<>>]
                                             = [db EXCEPT !.actionLog = <<>>]
            /\ Last(inv'.messages) = ToolMessage(Head(inv.pending).id, e.result)
            /\ Last(inv'.allToolCalls).result = e.result
            /\ inv'.pending = Tail(inv.pending)
            /\ obs'.exit # "caught"

C9_UnknownToolIsFailureResult == [][C9_UnknownStep]_vars

\* delete_store was asked for, got its failure result, and the model was
\* called again
C9_Witness ==
    /\ obs.modelCalls >= 2 /\ obs.executed # <<>>
    /\ obs.executed[1].toolName = "delete_store"
    /\ inv.allToolCalls[1].result = Failure("Unknown tool: delete_store")

\* C10: once a model call has thrown, the invocation is over with the fixed
\* apology, and no model call or dispatcher invocation follows.
C10_ThrowStep ==
    obs'.modelThrew =>
        /\ inv'.pc = "done" /\ inv'.ret = Some(ApologyResponse)
        /\ obs'.modelCalls = IF obs.modelThrew THEN obs.modelCalls ELSE obs.modelCalls + 1
        /\ obs'.executed = obs.executed

C10_NoRetryAfterModelThrow == [][C10_ThrowStep]_vars

\* the third model call threw after two rounds of tool calls
C10_Witness ==
    /\ obs.modelThrew /\ obs.modelCalls = 3 /\ Len(obs.executed) >= 2
    /\ inv.ret = Some(ApologyResponse)

\* C11: for an identity without a Conversation the context builder throws
\* its not-found Error, the fixed apology is returned, and there is no model
\* call, no dispatcher invocation and no storage write.
C11_NoConversationApology ==
    db.conversations[inv.whatsappNumber] = None =>
        LET got == getConversationContext(inv.whatsappNumber, DEFAULT_MAX_MESSAGES, db,
                                          <<TRUE, TRUE>>)
        IN  /\ got.threw
            /\ got.message = "No conversation found for " \o inv.whatsappNumber
            /\ obs.modelCalls = 0 /\ obs.executed = <<>> /\ obs.logWrites = <<>>
            /\ db = EmptyStore
            /\ inv.pc \in {"start", "done"}
            /\ inv.pc = "done" => (inv.ret = Some(ApologyResponse) /\ obs.exit = "caught")

\* the invocation for the unknown identity has returned
C11_Witness ==
    /\ inv.pc = "done" /\ db.conversations[inv.whatsappNumber] = None
    /\ inv.ret = Some(ApologyResponse) /\ inv.context = None

\* C12: a response with tool-call requests has the dispatcher invoked once
\* for each of them, in order, whatever its finish reason and the type of
\* the tool calls.
C12_Step ==
    /\ (obs'.modelCalls = obs.modelCalls + 1 /\ ~obs'.modelThrew /\ Last(obs'.asked) > 0) =>
          (inv'.pc = "tools" /\ Len(inv'.pending) = Last(obs'.asked))
    /\ inv.pc = "tools" =>
          /\ Invoked
          /\ Last(obs'.executed).toolName = Head(inv.pending).name
          /\ inv'.pending = Tail(inv.pending)

C12_EveryRequestDispatched == [][C12_Step]_vars

\* the last transcript entry that carries tool calls
LastRequestIndex(messages) ==
    CHOOSE i \in 1..Len(messages) :
        /\ "tool_calls" \in DOMAIN messages[i]
        /\ \A j \in (i + 1)..Len(messages) : "tool_calls" \notin DOMAIN messages[j]

\* C13: a model call that follows a response with tool-call requests is
\* sent a transcript with exactly one tool result per request of that
\* response, keyed by the request's id, all executions being over.
C13_ResultsBeforeNextCall ==
    (inv.pc = "model" /\ obs.asked # <<>> /\ Last(obs.asked) > 0) =>
        LET i == LastRequestIndex(inv.messages)
            calls == inv.messages[i].tool_calls
            after == (i + 1)..Len(inv.messages)
        IN  /\ inv.pending = <<>>
            /\ Len(calls) = Last(obs.asked)
            /\ \A j \in after : inv.messages[j].role = "tool"
            /\ \A c \in 1..Len(calls) :
                 Cardinality({j \in after : inv.messages[j].tool_call_id = calls[c].id}) = 1
            /\ Cardinality(after) = Len(calls)

\* C14: the returned toolCalls hold one triple per dispatcher invocation, in
\* execution order, also for invocations that threw and for invocations
\* made before a later model call failed.
C14_ToolCallsComplete ==
    inv.pc = "done" =>
        LET returned == IF inv.ret[1].toolCalls = None THEN <<>>
                        ELSE inv.ret[1].toolCalls[1]
        IN  /\ Len(returned) = Len(obs.executed)
            /\ \A i \in 1..Len(returned) :
                 /\ returned[i].name = obs.executed[i].toolName
                 /\ returned[i].input = obs.executed[i].input

\* the usage counts of the model calls that answered, added up
RECURSIVE SumOfUsage(_)
SumOfUsage(usages) ==
    IF usages = <<>> THEN 0
    ELSE (IF Head(usages) # None THEN Head(usages)[1] ELSE 0) + SumOfUsage(Tail(usages))

\* C15: the returned tokensUsed is the sum of the usage counts of all the
\* model calls of the invocation.
C15_TokensUsedIsSum ==
    (inv.pc = "done" /\ obs.usages # <<>>) =>
        inv.ret[1].tokensUsed = Some(SumOfUsage(obs.usages))

\* the trimmed texts of the responses of this invocation
ModelTexts == {trim(obs.contents[i][1]) :
                 i \in {j \in 1..Len(obs.contents) : obs.contents[j] # None}}

\* C16: the reply is text the model produced in this invocation, the
\* fallback string or the apology string.
C16_ReplyFromModelOrFixed ==
    inv.pc = "done" =>
        inv.ret[1].reply \in ModelTexts \cup {FALLBACK_REPLY, APOLOGY_REPLY}

\* a reply in natural language has gone out to the sender: a Twilio message
\* with a body, or a TwiML response with a message in it
Replied ==
    \/ \E i \in 1..Len(hook.sent) : hook.sent[i].body # <<>>
    \/ (hook.response # None /\ hook.response[1].message # None
            /\ hook.response[1].message[1] # <<>>)

\* an accepted webhook request with a body or a media attachment
Answerable ==
    /\ hook.pc = "received"
    /\ hook.variant = "rest" => hook.signed
    /\ hook.body # <<>> \/ hook.mediaUrl # None

\* C17: every inbound message with a body or an attachment is eventually
\* answered with a natural-language reply, also when the handler's own
\* storage calls fail.
C17_EveryMessageAnswered == Answerable ~> Replied

\* C18: verify_vendor with the ID of a store the backend holds writes a
\* verified VendorLink for the caller and sets the Conversation's account
\* ids to that store (the backend answering and storage accepting the
\* writes); with an ID of no store it returns a failure and writes neither.
C18_VerifyByStoreId ==
    (inv.pc = "tools" /\ Head(inv.pending).type = "function"
        /\ Head(inv.pending).name = "verify_vendor") =>
        LET input == ParsedToolInput(Head(inv.pending).arguments)
            store_id == Prop(input, "store_id")
            me == inv.whatsappNumber
        IN  \A env \in VendorEnvs :
                LET run == executeTool("verify_vendor", input, inv.context[1], db, env)
                    after == ToolIterationStep(State, env).db
                IN  /\ (store_id \in VendorIds /\ env.net[1] /\ env.store = <<TRUE, TRUE>>) =>
                          /\ ~run.threw /\ run.result.success
                          /\ after.vendorLinks[me] # None
                          /\ after.vendorLinks[me][1].verified
                          /\ after.vendorLinks[me][1].wpUserId = store_id
                          /\ after.vendorLinks[me][1].wpStoreId = store_id
                          /\ after.conversations[me][1].wpUserId = store_id
                          /\ after.conversations[me][1].wpStoreId = store_id
                    /\ (Truthy(store_id) /\ store_id \notin VendorIds) =>
                          /\ ~run.threw /\ ~run.result.success
                          /\ after.vendorLinks = db.vendorLinks
                          /\ after.conversations = db.conversations

\* a caller without a link verified with store 7 after a failed attempt
\* with store 9
C18_Witness ==
    /\ Len(obs.executed) >= 2
    /\ obs.executed[1].toolName = "verify_vendor" /\ ~obs.executed[1].result.success
    /\ Prop(obs.executed[1].input, "store_id") = "9"
    /\ obs.executed[2].toolName = "verify_vendor" /\ obs.executed[2].result.success
    /\ db.vendorLinks[Caller] = Some(LinkRow(Caller, VendorById("7")))
    /\ db.conversations[Caller][1].wpStoreId = "7"

\* C19: a verify_vendor that returns a failure result leaves the VendorLink
\* table as it was, also when a storage write of the link step throws.
C19_FailedStep ==
    (Invoked /\ Last(obs'.executed).toolName = "verify_vendor"
        /\ ~Last(obs'.executed).result.success) =>
        db'.vendorLinks = db.vendorLinks

C19_FailedVerificationWritesNoLink == [][C19_FailedStep]_vars

\* C20: with a context that is not verified the dispatcher issues no
\* store-mutating backend request.
C20_NoMutationUnverified ==
    (inv.context # None /\ ~inv.context[1].isVerified) =>
        \A i \in 1..Len(obs.executed) :
            \A k \in 1..Len(obs.executed[i].reqs) :
                obs.executed[i].reqs[k].method = "GET"

\* C21: for a context with isVerified = false, a list_products entry of
\* the returned toolCalls is preceded there by a verify_vendor entry whose
\* result is a success.
C21_ListingOnlyAfterVerification ==
    (inv.pc = "done" /\ inv.context # None /\ ~inv.context[1].isVerified
                     /\ inv.ret[1].toolCalls # None) =>
        LET returned == inv.ret[1].toolCalls[1]
        IN  \A i \in 1..Len(returned) :
              returned[i].name = "list_products" =>
                  \E j \in 1..(i - 1) :
                      /\ returned[j].name = "verify_vendor"
                      /\ returned[j].result.success

----------------------------------------------------------------------------
(* SpecInsights: the model asks for the composite tools, which read the    *)
(* backend several times: insights with and without a vendor_id of the     *)
(* model's choosing, and ad copy for a product.                            *)

InsightKinds ==
    { [type |-> "function", name |-> "get_business_insights",
       arguments |-> <<"{", "insight_type", ":", "sales_summary", "}">>],
      [type |-> "function", name |-> "get_business_insights",
       arguments |-> <<"{", "insight_type", ":", "weekly_report", ",",
                       "vendor_id", ":", "7", "}">>],
      [type |-> "function", name |-> "get_business_insights",
       arguments |-> <<"{", "insight_type", ":", "pricing_advice", "}">>],
      [type |-> "function", name |-> "generate_ad_copy",
       arguments |-> <<"{", "product_id", ":", "1", "}">>] }

\* the backend answers every request, none, or all but the first
InsightEnvs ==
    { QuietEnv(net, <<TRUE, TRUE>>) :
        net \in {AllUp, AllDown, <<FALSE, TRUE, TRUE, TRUE>>} }

NextInsights ==
    \/ BuildContext
    \/ CallModelFrom(ModelResponses(obs.requested, InsightKinds, {None}, {Some(120)}))
    \/ ToolIterationIn(InsightEnvs)

\* a caller without a link and a linked one
SpecInsights == InitFrom({UnlinkedCaller, LinkedCaller}) /\ [][NextInsights]_vars

\* the insight types whose branch tests for a linked account
AccountInsightTypes == {"sales_summary", "pricing_advice", "weekly_report"}

\* C22: get_business_insights on an account-requiring insight type, for a
\* context with no linked account, returns a failure result and makes no
\* backend request, whatever input the model supplied.
C22_UnlinkedInsightsFail ==
    \A i \in 1..Len(obs.executed) :
        LET e == obs.executed[i]
        IN  (/\ e.toolName = "get_business_insights" /\ e.input.type = "object"
             /\ Prop(e.input, "insight_type") \in AccountInsightTypes
             /\ ~Truthy(inv.context[1].wpStoreId)) =>
                /\ ~e.threw /\ ~e.result.success
                /\ e.reqs = <<>>

\* C23: when the backend refuses every request of a tool execution that
\* makes one, the tool's result is {success: false, error} and the Action
\* Log row of the call has success = false.
C23_BackendFailureIsFailureResult ==
    (inv.pc = "tools" /\ Head(inv.pending).type = "function") =>
        \A env \in InsightEnvs :
            LET after == ToolIterationStep(State, env)
                e == Last(after.obs.executed)
                row == Last(after.obs.logWrites).row
            IN  (env.net = AllDown /\ e.reqs # <<>>) =>
                    /\ ~e.threw
                    /\ ~e.result.success /\ "error" \in DOMAIN e.result
                    /\ ~row.success

----------------------------------------------------------------------------
(* The Tool Catalog (app/lib/tools.ts): the declarations handed to the     *)
(* model, each with its name and the values its insight_type parameter     *)
(* enumerates (none for a tool without that parameter).                    *)

Tool(name, insight_types) == [name |-> name, insight_type |-> insight_types]

agentTools ==
    << Tool("create_product", {}), Tool("list_products", {}), Tool("get_product", {}),
       Tool("update_product", {}), Tool("list_orders", {}), Tool("get_order", {}),
       Tool("update_order_status", {}), Tool("list_categories", {}),
       Tool("get_vendor_info", {}), Tool("get_vendor_stats", {}),
       Tool("create_event", {}), Tool("verify_vendor", {}),
       Tool("generate_ad_copy", {}),
       Tool("get_business_insights",
            {"sales_summary", "product_recommendations", "pricing_advice",
             "marketing_tips", "weekly_report"}),
       Tool("get_help", {}) >>

CatalogNames == { agentTools[i].name : i \in DOMAIN agentTools }

CatalogInsightTypes == UNION { agentTools[i].insight_type : i \in DOMAIN agentTools }

\* the names and insight types probed: the catalog's, and some it lacks
ProbedNames == CatalogNames \cup {"delete_store", "send_message", "get_insights"}

ProbedInsightTypes == CatalogInsightTypes \cup {"sales", "monthly_report", Undefined}

\* executeTool ran a case of its own for the name: what came back is not
\* what the default branch hands back
HandledByCase(name, context, store) ==
    LET run == executeTool(name, JsObject(<<>>), context, store,
                           QuietEnv(AllUp, <<TRUE, TRUE>>))
    IN  \/ run.threw
        \/ "error" \notin DOMAIN run.result
        \/ run.result.error # "Unknown tool: " \o name

\* the insight sub-dispatch ran a branch of its own for the type
HandledByBranch(type, context, store) ==
    LET run == executeTool("get_business_insights", JsObject([insight_type |-> type]),
                           context, store, QuietEnv(AllUp, <<TRUE, TRUE>>))
    IN  \/ run.threw
        \/ "error" \notin DOMAIN run.result
        \/ run.result.error # "Unknown insight type: " \o type

\* C24: the tool names the catalog declares are the names executeTool has
\* a case for, and the insight_type values the catalog enumerates are the
\* values the insight sub-dispatch has a branch for.
C24_CatalogMatchesDispatcher ==
    inv.context # None =>
        /\ \A name \in ProbedNames :
              name \in CatalogNames <=> HandledByCase(name, inv.context[1], db)
        /\ \A type \in ProbedInsightTypes :
              type \in CatalogInsightTypes <=> HandledByBranch(type, inv.context[1], db)

\* two tools of the catalog were run by their cases, one of them an
\* enumerated insight type by its branch
C24_Witness ==
    /\ Len(obs.executed) >= 2
    /\ obs.executed[1].toolName = "generate_ad_copy"
    /\ obs.executed[1].toolName \in CatalogNames
    /\ obs.executed[1].result.success
    /\ obs.executed[2].toolName = "get_business_insights"
    /\ Prop(obs.executed[2].input, "insight_type") = "pricing_advice"
    /\ "pricing" \in DOMAIN obs.executed[2].result

----------------------------------------------------------------------------
(* SpecContext: messages of every kind are stored in two conversations and *)
(* the context of either identity is read with several window sizes.       *)
(* Here inv is the last getConversationContext call and what it returned.  *)

\* the messages a store holds at most
MaxStored == 3

NoCall == [pc |-> "idle"]

\* the k-th message stored: of the caller's conversation in either
\* direction with no content, an empty text or a text of its own, or an
\* inbound text of the other conversation
StoredParams(k) ==
    { [conversationId |-> "conv-" \o Caller, direction |-> direction, content |-> content] :
        direction \in {"INBOUND", "OUTBOUND"},
        content \in {None, Some(<<>>), Some(<<"m" \o ToString(k)>>)} }
    \cup
    { [conversationId |-> "conv-" \o "+254700000002", direction |-> "INBOUND",
       content |-> Some(<<"n" \o ToString(k)>>)] }

WindowSizes == {1, 2, DEFAULT_MAX_MESSAGES}

\* a getConversationContext that stamps the conversation it read
GetContextStepStamping(w, whatsappNumber, maxMessages, ok) ==
    [w EXCEPT
       !.inv = [pc |-> "returned", whatsappNumber |-> whatsappNumber,
                maxMessages |-> maxMessages,
                ret |-> getConversationContext(whatsappNumber, maxMessages, w.db, ok)],
       !.db.messages = IF w.db.conversations[whatsappNumber] = None THEN @
                       ELSE Append(@, [conversationId |-> "conv-" \o whatsappNumber,
                                       direction |-> "OUTBOUND",
                                       content |-> Some(<<"read">>)])]

\* one call of getConversationContext: two reads, no write
GetContextStep(w, whatsappNumber, maxMessages, ok) ==
    [w EXCEPT
       !.inv = [pc |-> "returned", whatsappNumber |-> whatsappNumber,
                maxMessages |-> maxMessages,
                ret |-> getConversationContext(whatsappNumber, maxMessages, w.db, ok)]]

GetContext ==
    \E whatsappNumber \in Identities, maxMessages \in WindowSizes,
       ok \in {<<TRUE, TRUE>>, <<TRUE, FALSE>>, <<FALSE, FALSE>>} :
        BecomesWorld(GetContextStep(World, whatsappNumber, maxMessages, ok))

\* a handler's storeMessage, the conversation being there
StoreMessage ==
    /\ Len(db.messages) < MaxStored
    /\ \E params \in StoredParams(Len(db.messages) + 1),
          ok \in {<<TRUE, TRUE>>, <<TRUE, FALSE>>, <<FALSE, FALSE>>} :
          /\ \E n \in Identities : /\ db.conversations[n] # None
                                   /\ db.conversations[n][1].id = params.conversationId
          /\ db' = storeMessage(params, db, ok).store
          /\ inv' = NoCall
          /\ UNCHANGED <<obs, hook>>

\* a handler's getOrCreateConversation for the other identity
CreateConversation ==
    /\ db.conversations["+254700000002"] = None
    /\ db' = getOrCreateConversation("+254700000002", "Zawadi", db, <<TRUE, TRUE>>).store
    /\ inv' = NoCall
    /\ UNCHANGED <<obs, hook>>

InitContext ==
    /\ db \in {EmptyStore, IngestedStore(None),
               IngestedStore(Some(LinkRow(Caller, VendorById("8"))))}
    /\ inv = NoCall
    /\ obs = NoObservations
    /\ hook = NoHook

\* a verification links the caller to a backend vendor; either write of
\* linkVendor may be the first to fail
LinkVendor ==
    \E vendor \in VendorDirectory,
       ok \in {<<TRUE, TRUE>>, <<TRUE, FALSE>>, <<FALSE, FALSE>>} :
        /\ db' = linkVendor([whatsappNumber |-> Caller, wpUserId |-> vendor.id,
                             wpStoreId |-> vendor.id, storeName |-> vendor.store_name],
                            db, ok).store
        /\ inv' = NoCall
        /\ UNCHANGED <<obs, hook>>

NextContext == GetContext \/ StoreMessage \/ CreateConversation \/ LinkVendor

SpecContext == InitContext /\ [][NextContext]_vars

\* the positions, in creation order, of the conversation's messages that
\* are among its n most recent and have a text
WindowOf(all, n) ==
    { i \in 1..Len(all) : /\ i > Len(all) - n
                          /\ all[i].content # None /\ all[i].content[1] # <<>> }

\* C25: the history getConversationContext returns holds, in creation
\* order, exactly the messages with a text among the N most recently
\* created messages of the conversation, an INBOUND one as role user and an
\* OUTBOUND one as role assistant; it is never longer than N.
C25_HistoryIsRecentWindow ==
    (inv.pc = "returned" /\ ~inv.ret.threw) =>
        LET history == inv.ret.context[1].messageHistory
            conversationId == db.conversations[inv.whatsappNumber][1].id
            all == SelectSeq(db.messages, LAMBDA m : m.conversationId = conversationId)
            window == WindowOf(all, inv.maxMessages)
            rank(i) == Cardinality({k \in window : k <= i})
        IN  /\ Len(history) <= inv.maxMessages
            /\ Len(history) = Cardinality(window)
            /\ \A i \in window :
                  /\ history[rank(i)].content = all[i].content[1]
                  /\ history[rank(i)].role =
                        (IF all[i].direction = "INBOUND" THEN "user" ELSE "assistant")

\* a window of two over three messages, the middle one without a text: the
\* history is the newest message alone
C25_Witness ==
    /\ inv.pc = "returned" /\ ~inv.ret.threw /\ inv.maxMessages = 2
    /\ inv.whatsappNumber = Caller
    /\ Len(SelectSeq(db.messages, LAMBDA m : m.conversationId = "conv-" \o Caller)) = 3
    /\ Len(inv.ret.context[1].messageHistory) = 1
    /\ inv.ret.context[1].messageHistory[1].role = "assistant"

----------------------------------------------------------------------------
(* The rate limiter (app/lib/rate-limit.ts): a process-local Map from key  *)
(* to {count, resetAt}, read and written by checkRateLimit and swept by a  *)
(* timer.  In SpecRate db is that Map, inv the last checkRateLimit call    *)
(* and obs the clock with, per key, the calls allowed since the key's      *)
(* window was opened.                                                      *)

\* Date.now() goes up to MaxNow
MaxNow == 4

\* the largest maxRequests a caller passes
MaxLimit == 2

WindowLengths == {1, 2}

\* checkRateLimit(key, maxRequests, windowMs) at time now
checkRateLimit(key, maxRequests, windowMs, store, now) ==
    LET entry == store[key]
    IN  IF entry = None \/ now > entry[1].resetAt
        THEN [ret |-> TRUE,
              store |-> [store EXCEPT ![key] = Some([count |-> 1, resetAt |-> now + windowMs])]]
        ELSE IF entry[1].count >= maxRequests
        THEN [ret |-> FALSE, store |-> store]
        ELSE [ret |-> TRUE,
              store |-> [store EXCEPT ![key] = Some([entry[1] EXCEPT !.count = @ + 1])]]

\* the setInterval callback: entries whose window is over are deleted
CleanUp(store, now) ==
    [key \in DOMAIN store |->
        IF store[key] # None /\ now > store[key][1].resetAt THEN None ELSE store[key]]

CheckRateLimit ==
    \E key \in Identities, maxRequests \in 0..MaxLimit, windowMs \in WindowLengths :
        LET call == checkRateLimit(key, maxRequests, windowMs, db, obs.now)
            opened == db[key] = None \/ obs.now > db[key][1].resetAt
        IN  /\ db' = call.store
            /\ inv' = [pc |-> "checked", key |-> key, maxRequests |-> maxRequests,
                       ret |-> call.ret]
            /\ obs' = [obs EXCEPT !.allowed[key] =
                          IF ~call.ret THEN @ ELSE IF opened THEN 1 ELSE @ + 1]
            /\ hook' = hook

Sweep ==
    /\ db' = CleanUp(db, obs.now)
    /\ UNCHANGED <<inv, obs, hook>>

Tick ==
    /\ obs.now < MaxNow
    /\ obs' = [obs EXCEPT !.now = @ + 1]
    /\ UNCHANGED <<inv, db, hook>>

InitRate ==
    /\ db = [key \in Identities |-> None]
    /\ inv = NoCall
    /\ obs = [now |-> 0, allowed |-> [key \in Identities |-> 0]]
    /\ hook = NoHook

NextRate == CheckRateLimit \/ Sweep \/ Tick

SpecRate == InitRate /\ [][NextRate]_vars

\* C28: a checkRateLimit call that returns true is, counting itself, at
\* most the maxRequests-th call allowed for its key in the key's window,
\* whatever maxRequests is.
C28_AllowedWithinLimit ==
    (inv.pc = "checked" /\ inv.ret) => obs.allowed[inv.key] <= inv.maxRequests

----------------------------------------------------------------------------
(* SpecRace: two webhook handlers run getOrCreateConversation at the same  *)
(* time, each await being a step of its own.  whatsappNumber is the key    *)
(* findUnique reads by, so a create for a number that has a row is         *)
(* rejected.  Here inv[h] is the call of handler h.  Storage is up.        *)

Handlers == {1, 2}

\* handler h awaits prisma.conversation.findUnique
LookupConversation(h) ==
    /\ inv[h].pc = "lookup"
    /\ LET found == db.conversations[inv[h].whatsappNumber]
       IN  inv' = [inv EXCEPT ![h] =
                [@ EXCEPT !.pc = IF found = None THEN "create"
                                 ELSE IF Truthy(inv[h].profileName) /\ ~Truthy(found[1].vendorName)
                                 THEN "update" ELSE "done",
                          !.ret = found]]
    /\ UNCHANGED <<db, obs, hook>>

\* handler h awaits prisma.conversation.create, having found no row
CreateRow(h) ==
    /\ inv[h].pc = "create"
    /\ LET whatsappNumber == inv[h].whatsappNumber
           row == [id |-> "conv-" \o whatsappNumber, whatsappNumber |-> whatsappNumber,
                   vendorName |-> OrElse(inv[h].profileName, Null),
                   wpUserId |-> Null, wpStoreId |-> Null]
       IN  IF db.conversations[whatsappNumber] # None
           THEN /\ inv' = [inv EXCEPT ![h] =
                        [@ EXCEPT !.pc = "done", !.threw = TRUE,
                                  !.message = "Unique constraint failed on the fields: (whatsappNumber)",
                                  !.ret = None]]
                /\ db' = db
           ELSE /\ inv' = [inv EXCEPT ![h] = [@ EXCEPT !.pc = "done", !.ret = Some(row)]]
                /\ db' = [db EXCEPT !.conversations[whatsappNumber] = Some(row)]
    /\ UNCHANGED <<obs, hook>>

\* handler h awaits prisma.conversation.update of the row it found
UpdateRow(h) ==
    /\ inv[h].pc = "update"
    /\ LET whatsappNumber == inv[h].whatsappNumber
           row == [db.conversations[whatsappNumber][1] EXCEPT
                      !.vendorName = inv[h].profileName]
       IN  /\ inv' = [inv EXCEPT ![h] = [@ EXCEPT !.pc = "done", !.ret = Some(row)]]
           /\ db' = [db EXCEPT !.conversations[whatsappNumber] = Some(row)]
    /\ UNCHANGED <<obs, hook>>

NextRace == \E h \in Handlers : LookupConversation(h) \/ CreateRow(h) \/ UpdateRow(h)

\* each handler serves a message of either identity, with a profile name or
\* none; the caller is new, or known with or without a name
InitRace ==
    /\ inv \in [Handlers -> [pc : {"lookup"}, whatsappNumber : Identities,
                             profileName : {Undefined, "Amina"}, ret : {None},
                             threw : {FALSE}, message : {Undefined}]]
    /\ db \in {EmptyStore, IngestedStore(None),
               [IngestedStore(None) EXCEPT !.conversations[Caller][1].vendorName = Null]}
    /\ obs = NoObservations
    /\ hook = NoHook

SpecRace == InitRace /\ [][NextRace]_vars

\* C27: every getOrCreateConversation call that is over has returned the
\* one Conversation of its identity, also when two calls for a new
\* identity interleave between their lookup and their create.
C27_EveryCallReturnsTheConversation ==
    \A h \in Handlers :
        inv[h].pc = "done" =>
            /\ ~inv[h].threw
            /\ inv[h].ret # None
            /\ db.conversations[inv[h].whatsappNumber] # None
            /\ inv[h].ret[1].id = db.conversations[inv[h].whatsappNumber][1].id

----------------------------------------------------------------------------
(* SpecFair: the model may ask for tools in every response, however many   *)
(* it has asked for before, and every await of processMessage (a storage   *)
(* read, a model call, a tool execution with its log write) eventually     *)
(* resolves or rejects.                                                    *)

\* the model calls one invocation is followed through
MaxModelCalls == 4

\* what the model may answer whatever it was sent: it throws, or answers
\* with a text or none and with no tool call or one, a read or a call that
\* throws
FairResponses ==
    { ModelThrows }
    \cup
    UNION { [threw : {FALSE}, content : {None, Some(<<"A">>)},
             tool_calls : ToolCallLists(n, obs.requested, LogKinds),
             finish_reason : FinishReasons, usage : {Some(120)}] :
            n \in {0, 1} }

CallModelFair == obs.modelCalls < MaxModelCalls /\ CallModelFrom(FairResponses)

NextFair == BuildContext \/ CallModelFair \/ ToolIterationIn(LoopEnvs)

InitFair == InitFrom({UnknownCaller, UnlinkedCaller, LinkedCaller})

SpecFair == InitFair /\ [][NextFair]_vars /\ WF_vars(NextFair)

\* C29: every processMessage invocation eventually returns, whatever the
\* model answers, each await eventually resolving or rejecting.
C29_EveryInvocationReturns == <>(inv.pc = "done")

\* the model asked for tools in every one of its responses, and the
\* invocation returned when the rounds were used up
C29_Witness ==
    /\ inv.pc = "done" /\ obs.exit = "exhausted"
    /\ obs.modelCalls = MAX_TOOL_ROUNDS
    /\ \A i \in 1..Len(obs.asked) : obs.asked[i] >= 1
    /\ Len(obs.executed) >= MAX_TOOL_ROUNDS

----------------------------------------------------------------------------
(* SpecVerify: the model asks for verifications that carry a store email,  *)
(* with and without the ID of a store the backend does not hold.           *)

VerifyKinds ==
    { [type |-> "function", name |-> "verify_vendor",
       arguments |-> <<"{", "store_id", ":", "9", ",",
                       "store_email", ":", "amina@shop.ke", "}">>],
      [type |-> "function", name |-> "verify_vendor",
       arguments |-> <<"{", "store_email", ":", "amina@shop.ke", "}">>],
      [type |-> "function", name |-> "verify_vendor",
       arguments |-> <<"{", "store_email", ":", "nobody@shop.ke", "}">>] }

NextVerify ==
    \/ BuildContext
    \/ CallModelFrom(ModelResponses(obs.requested, VerifyKinds, {None}, {Some(120)}))
    \/ ToolIterationIn(VendorEnvs)

InitVerify == InitFrom({UnlinkedCaller, LinkedCaller})

SpecVerify == InitVerify /\ [][NextVerify]_vars

\* C30: verify_vendor with a store_id the backend holds no store for and a
\* store_email that is a backend vendor's links the caller to that vendor
\* and returns a success (the backend answering and storage accepting the
\* writes).
C30_FallsBackToEmail ==
    (inv.pc = "tools" /\ Head(inv.pending).type = "function"
        /\ Head(inv.pending).name = "verify_vendor") =>
        LET input == ParsedToolInput(Head(inv.pending).arguments)
            store_id == Prop(input, "store_id")
            store_email == Prop(input, "store_email")
            me == inv.whatsappNumber
        IN  \A env \in VendorEnvs, v \in VendorDirectory :
                LET after == ToolIterationStep(State, env)
                    run == Last(after.obs.executed)
                IN  (/\ Truthy(store_id) /\ store_id \notin VendorIds
                     /\ v.email = store_email
                     /\ env.net = AllUp /\ env.store = <<TRUE, TRUE>>) =>
                        /\ ~run.threw /\ run.result.success
                        /\ after.db.vendorLinks[me] = Some(LinkRow(me, v))

----------------------------------------------------------------------------
(* SpecScope: the model asks for a verification and for the vendor-scoped  *)
(* reads, for a caller without a link and for one linked to store 8.       *)

ScopeKinds ==
    { [type |-> "function", name |-> "verify_vendor",
       arguments |-> <<"{", "store_id", ":", "7", "}">>],
      [type |-> "function", name |-> "list_products", arguments |-> <<"{", "}">>],
      [type |-> "function", name |-> "list_orders", arguments |-> <<"{", "}">>],
      [type |-> "function", name |-> "get_vendor_stats", arguments |-> <<"{", "}">>] }

NextScope ==
    \/ BuildContext
    \/ CallModelFrom(ModelResponses(obs.requested, ScopeKinds, {None}, {Some(120)}))
    \/ ToolIterationIn(LoopEnvs)

InitScope == InitFrom({UnlinkedCaller, LinkedCaller})

SpecScope == InitScope /\ [][NextScope]_vars

\* C31: for a context with a linked account, every backend request of a
\* list_products or list_orders execution carries the context's linked
\* account id as its vendor filter.
C31_ListingsCarryVendorFilter ==
    \A i \in 1..Len(obs.executed) :
        LET e == obs.executed[i]
        IN  (/\ e.toolName \in {"list_products", "list_orders"} /\ ~e.threw
             /\ Truthy(inv.context[1].wpUserId)) =>
                /\ e.reqs # <<>>
                /\ \A k \in 1..Len(e.reqs) : e.reqs[k].author = inv.context[1].wpUserId

\* C36: once a verify_vendor has succeeded in an invocation, a later
\* list_products or get_vendor_stats of the invocation that reaches the
\* backend is scoped to the account the VendorLink now names.
C36_LaterCallsSeeNewLink ==
    \A i \in 1..Len(obs.executed) : \A j \in (i + 1)..Len(obs.executed) :
        LET verified == obs.executed[i]
            later == obs.executed[j]
            linked == db.vendorLinks[inv.whatsappNumber][1]
        IN  (/\ verified.toolName = "verify_vendor"
             /\ ~verified.threw /\ verified.result.success
             /\ later.toolName \in {"list_products", "get_vendor_stats"}
             /\ ~later.threw) =>
                /\ later.reqs # <<>>
                /\ later.toolName = "list_products" =>
                      later.reqs[1].author = linked.wpUserId
                /\ later.toolName = "get_vendor_stats" =>
                      later.reqs[1].path = "/stores/" \o linked.wpStoreId \o "/stats"

\* C32: for an identity without a VendorLink the context's wpUserId and
\* wpStoreId are the Conversation's stored fields and isVerified is false;
\* with a VendorLink isVerified is the link's verified flag and the ids are
\* the link's.
C32_ContextIdsFromLinkOrConversation ==
    (inv.pc = "returned" /\ ~inv.ret.threw) =>
        LET context == inv.ret.context[1]
            link == db.vendorLinks[inv.whatsappNumber]
            conversation == db.conversations[inv.whatsappNumber][1]
        IN  IF link = None
            THEN /\ context.wpUserId = conversation.wpUserId
                 /\ context.wpStoreId = conversation.wpStoreId
                 /\ ~context.isVerified
            ELSE /\ context.isVerified = link[1].verified
                 /\ context.wpUserId = link[1].wpUserId
                 /\ context.wpStoreId = link[1].wpStoreId

\* the context of a caller whose VendorLink names store 8 while the
\* Conversation still holds store 7
C32_Witness ==
    /\ inv.pc = "returned" /\ ~inv.ret.threw /\ inv.whatsappNumber = Caller
    /\ db.vendorLinks[Caller] # None /\ db.vendorLinks[Caller][1].wpUserId = "8"
    /\ db.conversations[Caller][1].wpUserId = "7"
    /\ inv.ret.context[1].wpUserId = "8" /\ inv.ret.context[1].isVerified

\* text occurs in content, both sequences of chunks
Contains(content, text) ==
    \E k \in 1..(Len(content) - Len(text) + 1) :
        SubSeq(content, k, k + Len(text) - 1) = text

\* C35: when the webhook handler has called processMessage for a message
\* with a text, the transcript about to be sent to the first model call
\* holds that text in exactly one message, the last one.
C35_InboundTextOnceInTranscript ==
    (hook.pc = "processing" /\ inv.pc = "model" /\ obs.modelCalls = 0
        /\ hook.body # <<>>) =>
        LET holding == { i \in 1..Len(inv.messages) :
                           /\ inv.messages[i].content # None
                           /\ Contains(inv.messages[i].content[1], hook.body) }
        IN  holding = {Len(inv.messages)}

----------------------------------------------------------------------------
(* SpecConcurrent: two webhook requests of one identity are served at the  *)
(* same time, each handler taking its steps (the ingestion, the context    *)
(* read, the model call, the reply) whenever the scheduler runs it.  Here  *)
(* inv, obs and hook hold one entry per handler; db is shared.             *)

\* the handler of the first and of the second message
Requests == {1, 2}

\* a handler that waits until no other request is being processed
MayProceedInTurn(h) == \A g \in Requests \ {h} : hook[g].pc # "processing"

\* what a handler waits for before a step: nothing, the route takes no lock
MayProceed(h) == TRUE

HandlerWorld(h) == [inv |-> inv[h], db |-> db, obs |-> obs[h], hook |-> hook[h]]

HandlerBecomes(h, w) ==
    /\ inv' = [inv EXCEPT ![h] = w.inv]
    /\ db' = w.db
    /\ obs' = [obs EXCEPT ![h] = w.obs]
    /\ hook' = [hook EXCEPT ![h] = w.hook]

\* the model answers handler h with a text of its own and no tool call, or throws
ConcurrentResponses(h) ==
    { ModelThrows,
      [threw |-> FALSE, content |-> Some(<<"reply " \o ToString(h)>>), tool_calls |-> <<>>,
       finish_reason |-> "stop", usage |-> Some(120)] }

HandlerStep(h) ==
    /\ MayProceed(h)
    /\ \/ /\ hook[h].pc = "received"
          /\ \E ok \in ReceiveOutcomes :
                HandlerBecomes(h, WebhookReceiveStep(HandlerWorld(h), ok))
       \/ /\ hook[h].pc = "processing" /\ inv[h].pc = "start"
          /\ \E ok \in ReadOutcomes :
                HandlerBecomes(h, BuildContextStep(HandlerWorld(h), ok))
       \/ /\ hook[h].pc = "processing" /\ inv[h].pc = "model"
          /\ \E response \in ConcurrentResponses(h) :
                HandlerBecomes(h, CallModelStep(HandlerWorld(h), response))
       \/ /\ hook[h].pc = "processing" /\ inv[h].pc = "done"
          /\ \E env \in ReplyEnvs :
                HandlerBecomes(h, WebhookReplyStep(HandlerWorld(h), env))

InitConcurrent ==
    /\ hook \in { [h \in Requests |->
                      Inbound(variants[h], TRUE, <<"message " \o ToString(h)>>, NoMedia)] :
                  variants \in [Requests -> {"rest", "twiml"}] }
    /\ inv = [h \in Requests |->
                [Invocation(Caller, hook[h].body, hook[h].mediaUrl) EXCEPT !.pc = "idle"]]
    /\ db \in {EmptyStore, IngestedStore(None)}
    /\ obs = [h \in Requests |-> NoObservations]

NextConcurrent == \E h \in Requests : HandlerStep(h)

SpecConcurrent == InitConcurrent /\ [][NextConcurrent]_vars

\* C33: nothing serializes the handlers of one identity: a handler that
\* has not answered yet can take its next step whatever the other handler
\* is doing, so the second handler may read its context before the first
\* handler's reply is stored.
C33_HandlersNeverWait ==
    \A h \in Requests : hook[h].pc # "responded" => ENABLED HandlerStep(h)

\* both handlers have answered; the second read its context, holding both
\* inbound messages and no reply, before the first stored its reply, and
\* the stored order is inbound-1, inbound-2, outbound-1, outbound-2
C33_Witness ==
    /\ \A h \in Requests : hook[h].pc = "responded"
    /\ db = [EmptyStore EXCEPT
               !.conversations[Caller] = db.conversations[Caller],
               !.messages =
                  << [conversationId |-> "conv-" \o Caller, direction |-> "INBOUND",
                      content |-> Some(<<"message 1">>)],
                     [conversationId |-> "conv-" \o Caller, direction |-> "INBOUND",
                      content |-> Some(<<"message 2">>)],
                     [conversationId |-> "conv-" \o Caller, direction |-> "OUTBOUND",
                      content |-> Some(<<"reply 1">>)],
                     [conversationId |-> "conv-" \o Caller, direction |-> "OUTBOUND",
                      content |-> Some(<<"reply 2">>)] >>]
    /\ inv[2].context # None
    /\ inv[2].context[1].messageHistory =
          << [role |-> "user", content |-> <<"message 1">>],
             [role |-> "user", content |-> <<"message 2">>] >>

----------------------------------------------------------------------------
(* The content-block implementation of processMessage (unnamed/part_006):  *)
(* the model answers with a list of text and tool_use blocks and a         *)
(* stop_reason, and the results of one response's tools go back in one     *)
(* user message.  Its state is a record [inv, db, obs] like State.         *)

BLOCKS_MAX_TOOL_ROUNDS == 5

\* the two fixed replies end with an emoji, written here by its name
BLOCKS_FALLBACK_REPLY == <<"I'm here to help! What can I do for you today? :blush:">>

BLOCKS_APOLOGY_REPLY ==
    <<"I'm sorry, I ran into a problem processing your message. Please try again in a moment! :pray:">>

\* the locals of a call before its first statement
BlocksInvocation(whatsappNumber, userMessage, mediaUrl) ==
    [pc |-> "start", whatsappNumber |-> whatsappNumber, userMessage |-> userMessage,
     mediaUrl |-> mediaUrl, context |-> None, messages |-> <<>>,
     allToolCalls |-> <<>>, totalTokens |-> 0, finalReply |-> <<>>,
     rounds |-> 0, pending |-> <<>>, toolResults |-> <<>>, ret |-> None]

\* the top-level catch
BlocksCatchAll(st) ==
    [st EXCEPT !.inv.pc = "done",
               !.inv.ret = Some([reply |-> BLOCKS_APOLOGY_REPLY, toolCalls |-> None,
                                 tokensUsed |-> None]),
               !.obs.exit = "caught"]

\* the return after the loop
BlocksReturnReply(st, exit) ==
    [st EXCEPT !.inv.pc = "done",
               !.inv.ret = Some(AgentResponse(st.inv.finalReply, st.inv.allToolCalls,
                                              st.inv.totalTokens)),
               !.obs.exit = exit]

\* the context and the first transcript; the system prompt is a parameter
\* of the model call, not a message
BlocksBuildContextStep(st, ok) ==
    LET got == getConversationContext(st.inv.whatsappNumber, DEFAULT_MAX_MESSAGES, st.db, ok)
        context == got.context[1]
        currentMessageContent ==
            IF st.inv.mediaUrl # None
            THEN st.inv.userMessage \o <<"\n\n[The vendor sent an image/file: ">>
                    \o st.inv.mediaUrl[1] \o <<"]">>
            ELSE st.inv.userMessage
        messages ==
            [i \in 1..Len(context.messageHistory) |->
                [role |-> context.messageHistory[i].role,
                 content |-> Some(context.messageHistory[i].content)]]
            \o <<[role |-> "user", content |-> Some(currentMessageContent)]>>
    IN  IF got.threw THEN BlocksCatchAll(st)
        ELSE [st EXCEPT !.inv.context = got.context, !.inv.messages = messages,
                        !.inv.pc = "model"]

\* the texts of the text blocks joined by newlines
RECURSIVE JoinLines(_)
JoinLines(texts) ==
    IF texts = <<>> THEN <<>>
    ELSE IF Len(texts) = 1 THEN texts[1]
    ELSE texts[1] \o <<"\n">> \o JoinLines(Tail(texts))

\* the loop over the tool_use blocks goes on, or is over: then the results
\* go into the transcript and the loop condition is tested
BlocksAfterIteration(st) ==
    LET sent == [st EXCEPT !.inv.messages = Append(@, [role |-> "user",
                                                       content |-> st.inv.toolResults]),
                           !.inv.toolResults = <<>>]
    IN  IF st.inv.pending # <<>> THEN [st EXCEPT !.inv.pc = "tools"]
        ELSE IF st.inv.rounds < BLOCKS_MAX_TOOL_ROUNDS THEN [sent EXCEPT !.inv.pc = "model"]
        ELSE BlocksReturnReply(sent, "exhausted")

\* rounds++, the model call, and the handling of its response
BlocksCallModelStep(st, response) ==
    LET called == [st EXCEPT !.inv.rounds = @ + 1, !.obs.modelCalls = @ + 1]
        toolUseBlocks == SelectSeq(response.content, LAMBDA block : block.type = "tool_use")
        textBlocks == SelectSeq(response.content, LAMBDA block : block.type = "text")
        totalTokens == st.inv.totalTokens +
                         (IF response.usage # None
                          THEN response.usage[1].input_tokens + response.usage[1].output_tokens
                          ELSE 0)
        finalReply == IF Len(textBlocks) > 0
                      THEN trim(JoinLines([i \in 1..Len(textBlocks) |-> textBlocks[i].text]))
                      ELSE st.inv.finalReply
        counted == [called EXCEPT !.inv.totalTokens = totalTokens,
                                  !.inv.finalReply = finalReply,
                                  !.obs.requested = @ + Len(toolUseBlocks),
                                  !.obs.asked = Append(@, Len(toolUseBlocks))]
    IN  IF response.threw THEN BlocksCatchAll([called EXCEPT !.obs.modelThrew = TRUE])
        ELSE IF Len(toolUseBlocks) = 0 \/ response.stop_reason = "end_turn"
        THEN BlocksReturnReply([counted EXCEPT !.inv.finalReply =
                                  IF finalReply = <<>> THEN BLOCKS_FALLBACK_REPLY
                                  ELSE finalReply],
                               "break")
        ELSE BlocksAfterIteration(
               [counted EXCEPT
                  !.inv.messages = Append(@, [role |-> "assistant",
                                              content |-> response.content]),
                  !.inv.pending = toolUseBlocks])

\* one iteration of the loop over toolUseBlocks
BlocksToolIterationStep(st, env) ==
    LET toolBlock == Head(st.inv.pending)
        rest == [st EXCEPT !.inv.pending = Tail(@)]
        run == executeTool(toolBlock.name, toolBlock.input, st.inv.context[1], st.db, env)
        ran == [rest EXCEPT
                  !.db = run.store,
                  !.obs.executed = Append(@, [toolName |-> toolBlock.name,
                                              input |-> toolBlock.input,
                                              threw |-> run.threw, result |-> run.result,
                                              reqs |-> run.reqs,
                                              wrote |-> run.store # st.db])]
        duration == Duration(env.clock)
        pushed == [ran EXCEPT !.inv.allToolCalls =
                      Append(@, [name |-> toolBlock.name, input |-> toolBlock.input,
                                 result |-> run.result])]
        okParams == [whatsappNumber |-> st.inv.whatsappNumber, action |-> toolBlock.name,
                     toolName |-> toolBlock.name, success |-> SuccessFlag(run.result),
                     errorMessage |-> ErrorOf(run.result), durationMs |-> duration]
        okLog == logAction(okParams, pushed.db, env.log[1])
        okLogged == [pushed EXCEPT
                       !.db = okLog.store,
                       !.obs.logWrites = Append(@, [row |-> ActionLogRow(okParams),
                                                    stored |-> env.log[1]])]
        okDone == [okLogged EXCEPT !.inv.toolResults =
                      Append(@, [type |-> "tool_result", tool_use_id |-> toolBlock.id,
                                 content |-> JSONStringify(run.result)])]
        caught(from, message, k) ==
            LET params == [whatsappNumber |-> st.inv.whatsappNumber,
                           action |-> toolBlock.name, toolName |-> toolBlock.name,
                           success |-> FALSE, errorMessage |-> message,
                           durationMs |-> duration]
                log == logAction(params, from.db, env.log[k])
                logged == [from EXCEPT
                             !.db = log.store,
                             !.obs.logWrites = Append(@, [row |-> ActionLogRow(params),
                                                          stored |-> env.log[k]])]
            IN  IF log.threw THEN BlocksCatchAll(logged)
                ELSE BlocksAfterIteration(
                        [logged EXCEPT !.inv.toolResults =
                            Append(@, [type |-> "tool_result", tool_use_id |-> toolBlock.id,
                                       content |-> JSONStringify([success |-> FALSE,
                                                                  error |-> message]),
                                       is_error |-> TRUE])])
    IN  IF run.threw THEN caught(ran, run.message, 1)
        ELSE IF okLog.threw THEN caught(okLogged, okLog.message, 2)
        ELSE BlocksAfterIteration(okDone)

----------------------------------------------------------------------------
(* SpecEquiv: the two implementations are driven side by side by the same  *)
(* abstract model responses (a text or none, tool-call requests, a stop    *)
(* indicator) and the same tool outcomes.  inv, db and obs hold the state  *)
(* of the chat-completions implementation, hook that of the content-block  *)
(* implementation.                                                         *)

AbstractResponses(requested) ==
    { [threw |-> TRUE, text |-> None, calls |-> <<>>, stop |-> TRUE] }
    \cup
    UNION { [threw : {FALSE}, text : {None, Some(<<"A">>)},
             calls : ToolCallLists(n, requested, LogKinds), stop : BOOLEAN] :
            n \in 0..Min(MaxCallsPerResponse, MaxToolCalls - requested) }

\* the response as the chat-completions API delivers it
ChatCompletion(r) ==
    IF r.threw THEN ModelThrows
    ELSE [threw |-> FALSE, content |-> r.text, tool_calls |-> r.calls,
          finish_reason |-> IF r.stop THEN "stop" ELSE "tool_calls",
          usage |-> Some(120)]

\* the response as the messages API delivers it, the SDK having parsed the
\* input of every tool_use block
ContentBlocks(r) ==
    [threw |-> r.threw,
     content |-> (IF r.text # None THEN <<[type |-> "text", text |-> r.text[1]]>> ELSE <<>>)
                 \o [i \in 1..Len(r.calls) |->
                       [type |-> "tool_use", id |-> r.calls[i].id, name |-> r.calls[i].name,
                        input |-> JSONParse(r.calls[i].arguments).value]],
     stop_reason |-> IF r.stop THEN "end_turn" ELSE "tool_use",
     usage |-> Some([input_tokens |-> 100, output_tokens |-> 20])]

BlocksState == hook

\* both implementations are at pc, or one is and the other has returned
BothAt(pc) ==
    /\ inv.pc \in {pc, "done"} /\ BlocksState.inv.pc \in {pc, "done"}
    /\ inv.pc = pc \/ BlocksState.inv.pc = pc

\* each implementation that has not returned takes the step
Both(pc, chat, blocks) ==
    /\ BothAt(pc)
    /\ BecomesWorld([inv |-> IF inv.pc = pc THEN chat.inv ELSE inv,
                     db |-> IF inv.pc = pc THEN chat.db ELSE db,
                     obs |-> IF inv.pc = pc THEN chat.obs ELSE obs,
                     hook |-> IF BlocksState.inv.pc = pc THEN blocks ELSE hook])

BuildContextBoth ==
    \E ok \in ReadOutcomes :
        /\ Both("start", BuildContextStep(State, ok), BlocksBuildContextStep(BlocksState, ok))

CallModelBoth ==
    \E r \in AbstractResponses(BlocksState.obs.requested) :
        /\ Both("model", CallModelStep(State, ChatCompletion(r)),
                         BlocksCallModelStep(BlocksState, ContentBlocks(r)))

ToolIterationBoth ==
    \E env \in LoopEnvs :
        /\ Both("tools", ToolIterationStep(State, env), BlocksToolIterationStep(BlocksState, env))

InitEquiv ==
    \E call \in {UnknownCaller, LinkedCaller} :
        /\ inv = Invocation(Caller, UserMessage, call.mediaUrl)
        /\ db = call.store
        /\ obs = NoObservations
        /\ hook = [inv |-> BlocksInvocation(Caller, UserMessage, call.mediaUrl),
                   db |-> call.store, obs |-> NoObservations]

NextEquiv == BuildContextBoth \/ CallModelBoth \/ ToolIterationBoth

SpecEquiv == InitEquiv /\ [][NextEquiv]_vars

\* the tool, its input, its outcome and its backend requests of each
\* dispatcher invocation
DispatcherCalls(executed) ==
    [i \in 1..Len(executed) |->
        [toolName |-> executed[i].toolName, input |-> executed[i].input,
         threw |-> executed[i].threw, result |-> executed[i].result,
         reqs |-> executed[i].reqs]]

\* C34: when both implementations have returned they have made the same
\* dispatcher calls and action-log writes and return the same reply and
\* toolCalls.
C34_ImplementationsAgree ==
    (inv.pc = "done" /\ BlocksState.inv.pc = "done") =>
        /\ DispatcherCalls(obs.executed) = DispatcherCalls(BlocksState.obs.executed)
        /\ obs.logWrites = BlocksState.obs.logWrites
        /\ inv.ret[1].reply = BlocksState.inv.ret[1].reply
        /\ inv.ret[1].toolCalls = BlocksState.inv.ret[1].toolCalls

----------------------------------------------------------------------------
(* SpecLink: two verify_vendor executions have reached linkVendor.  Each    *)
(* awaits its vendorLink upsert and then its conversation updateMany; the   *)
(* two writes are separate statements in no transaction, so the writes of  *)
(* the other execution may fall between them.                              *)

Verifications == {1, 2}

LinkParams(h) ==
    [whatsappNumber |-> inv[h].whatsappNumber, wpUserId |-> inv[h].vendor.id,
     wpStoreId |-> inv[h].vendor.id, storeName |-> inv[h].vendor.store_name]

\* prisma.conversation.updateMany of linkVendor
updateConversationIds(params, store) ==
    LET conv == store.conversations[params.whatsappNumber]
    IN  IF conv = None THEN store
        ELSE [store EXCEPT !.conversations[params.whatsappNumber] =
                Some([conv[1] EXCEPT !.wpUserId = params.wpUserId,
                                     !.wpStoreId = params.wpStoreId])]

\* execution h awaits prisma.vendorLink.upsert
UpsertLink(h) ==
    /\ inv[h].pc = "upsert"
    /\ \E ok \in BOOLEAN :
        /\ db' = linkVendorLinkOnly(LinkParams(h), db, <<ok>>).store
        /\ inv' = [inv EXCEPT ![h].pc = IF ok THEN "update" ELSE "done",
                              ![h].threw = ~ok]
    /\ UNCHANGED <<obs, hook>>

\* execution h awaits prisma.conversation.updateMany
UpdateConversations(h) ==
    /\ inv[h].pc = "update"
    /\ \E ok \in BOOLEAN :
        /\ db' = IF ok THEN updateConversationIds(LinkParams(h), db) ELSE db
        /\ inv' = [inv EXCEPT ![h].pc = "done", ![h].threw = ~ok]
    /\ UNCHANGED <<obs, hook>>

\* the conversation exists; an earlier linkVendor call may have linked it
InitLink ==
    /\ inv \in [Verifications -> [pc : {"upsert"}, whatsappNumber : Identities,
                                  vendor : VendorDirectory, threw : {FALSE}]]
    /\ db \in {IngestedStore(None)}
              \cup { linkVendor([whatsappNumber |-> Caller, wpUserId |-> v.id,
                                 wpStoreId |-> v.id, storeName |-> v.store_name],
                                IngestedStore(None), <<TRUE, TRUE>>).store :
                     v \in VendorDirectory }
    /\ obs = NoObservations
    /\ hook = NoHook

NextLink == \E h \in Verifications : UpsertLink(h) \/ UpdateConversations(h)

SpecLink == InitLink /\ [][NextLink]_vars

\* C37: when no linkVendor call is in progress for an identity and none of
\* its writes failed, the identity's Conversation stores the wpUserId and
\* wpStoreId of its VendorLink, also after two calls with different stores
\* interleaved their two writes.
C37_ConversationMatchesLink ==
    \A n \in Identities :
        ( /\ \A h \in Verifications :
                inv[h].whatsappNumber = n => inv[h].pc = "done" /\ ~inv[h].threw
          /\ db.vendorLinks[n] # None
          /\ db.conversations[n] # None )
        => /\ db.conversations[n][1].wpUserId = db.vendorLinks[n][1].wpUserId
           /\ db.conversations[n][1].wpStoreId = db.vendorLinks[n][1].wpStoreId

----------------------------------------------------------------------------
(* SpecSend: one sendWhatsAppMessage call of the Twilio client.  The body   *)
(* is a string of characters; the split limit, 1500 in the client, is      *)
(* scaled down to SplitLimit, the 0.3 threshold of the break search kept.  *)

SplitLimit == 4

MaxBody == 6

BodyChars == {"a", ".", " ", "\n"}

Bodies == UNION { [1..n -> BodyChars] : n \in 0..MaxBody }

IsWhitespace(c) == c \in {" ", "\n"}

\* String.prototype.trim on a string of characters
RECURSIVE TrimStart(_)
TrimStart(s) == IF s # <<>> /\ IsWhitespace(Head(s)) THEN TrimStart(Tail(s)) ELSE s

RECURSIVE TrimEnd(_)
TrimEnd(s) ==
    IF s # <<>> /\ IsWhitespace(s[Len(s)]) THEN TrimEnd(SubSeq(s, 1, Len(s) - 1)) ELSE s

TrimText(s) == TrimEnd(TrimStart(s))

\* String.prototype.lastIndexOf(pattern, fromIndex): the greatest index, from
\* 0 and at most fromIndex, at which pattern occurs, or -1
lastIndexOf(s, pattern, fromIndex) ==
    LET at == { i \in 0..Min(fromIndex, Len(s) - Len(pattern)) :
                  SubSeq(s, i + 1, i + Len(pattern)) = pattern }
    IN  IF at = {} THEN -1 ELSE CHOOSE i \in at : \A j \in at : j <= i

\* String.prototype.slice(start, end) for 0 <= start <= end
slice(s, start, end) == SubSeq(s, start + 1, Min(end, Len(s)))

\* breakIdx === -1 || breakIdx < maxLength * 0.3
TooEarly(breakIdx, maxLength) == breakIdx = -1 \/ 10 * breakIdx < 3 * maxLength

\* the break index of one iteration of the split loop
BreakIndex(remaining, maxLength) ==
    LET paragraph == lastIndexOf(remaining, <<"\n", "\n">>, maxLength)
        line == IF TooEarly(paragraph, maxLength)
                THEN lastIndexOf(remaining, <<"\n">>, maxLength) ELSE paragraph
        found == lastIndexOf(remaining, <<".", " ">>, maxLength)
        sentence == IF TooEarly(line, maxLength)
                    THEN (IF found # -1 THEN found + 1 ELSE found) ELSE line
    IN  IF TooEarly(sentence, maxLength) THEN maxLength ELSE sentence

\* the call before its first statement: dev is DEV_MODE || !client
SendCall(to, body, dev) ==
    [pc |-> "start", to |-> to, body |-> body, dev |-> dev, remaining |-> <<>>,
     chunks |-> <<>>, next |-> 1, created |-> <<>>, sids |-> <<>>, ret |-> None]

\* sendWhatsAppMessage up to the split loop, with splitMessage's early return
SendStartStep(c, maxLength) ==
    IF c.dev
    THEN [c EXCEPT !.pc = "done",
                   !.ret = Some([success |-> TRUE, messageSids |-> <<"dev-mode-no-sid">>])]
    ELSE IF Len(c.body) <= maxLength
    THEN [c EXCEPT !.pc = "send", !.chunks = <<c.body>>]
    ELSE [c EXCEPT !.pc = "split", !.remaining = c.body]

\* one iteration of the while loop of splitMessage
SplitIterationStep(c, maxLength) ==
    LET breakIdx == BreakIndex(c.remaining, maxLength)
        rest == TrimText(slice(c.remaining, breakIdx, Len(c.remaining)))
    IN  IF Len(c.remaining) <= maxLength
        THEN [c EXCEPT !.pc = "send", !.chunks = @ \o <<c.remaining>>, !.remaining = <<>>]
        ELSE [c EXCEPT !.pc = IF Len(rest) > 0 THEN "split" ELSE "send",
                       !.chunks = @ \o <<TrimText(slice(c.remaining, 0, breakIdx))>>,
                       !.remaining = rest]

\* one iteration of the send loop, or the return after it; a rejected
\* client.messages.create is caught and reported
CreateMessageStep(c, ok) ==
    LET toNumber == IF Head(c.to) = "whatsapp:" THEN c.to ELSE <<"whatsapp:">> \o c.to
    IN  IF c.next > Len(c.chunks)
        THEN [c EXCEPT !.pc = "done",
                       !.ret = Some([success |-> TRUE, messageSids |-> c.sids])]
        ELSE IF ~ok
        THEN [c EXCEPT !.pc = "done", !.ret = Some(Failure("Twilio error"))]
        ELSE [c EXCEPT !.next = @ + 1,
                       !.created = @ \o <<[to |-> toNumber, body |-> c.chunks[c.next]]>>,
                       !.sids = @ \o <<c.next>>]

SendStart ==
    /\ inv.pc = "start"
    /\ inv' = SendStartStep(inv, SplitLimit)
    /\ UNCHANGED <<db, obs, hook>>

SplitIteration ==
    /\ inv.pc = "split"
    /\ inv' = SplitIterationStep(inv, SplitLimit)
    /\ UNCHANGED <<db, obs, hook>>

CreateMessage ==
    /\ inv.pc = "send"
    /\ \E ok \in BOOLEAN : inv' = CreateMessageStep(inv, ok)
    /\ UNCHANGED <<db, obs, hook>>

InitSend ==
    /\ inv \in { SendCall(to, body, dev) :
                   to \in {<<"+254700000001">>, <<"whatsapp:", "+254700000001">>},
                   body \in Bodies, dev \in BOOLEAN }
    /\ db = EmptyStore
    /\ obs = NoObservations
    /\ hook = NoHook

NextSend == SendStart \/ SplitIteration \/ CreateMessage

SpecSend == InitSend /\ [][NextSend]_vars

\* C38: every chunk handed to the transport is at most the split limit long,
\* and a body no longer than the limit is handed over as one unchanged chunk.
C38_ChunksWithinLimit ==
    /\ \A i \in 1..Len(inv.created) : Len(inv.created[i].body) <= SplitLimit
    /\ (inv.pc = "done" /\ ~inv.dev /\ inv.ret[1].success /\ Len(inv.body) <= SplitLimit)
           => [i \in 1..Len(inv.created) |-> inv.created[i].body] = <<inv.body>>

====
